---- MODULE Spec2Model ----
(***************************************************************************)
(* A model of the super-rpc JSON-RPC caching proxy: cache-key derivation,  *)
(* cacheability policy, the two-tier cache manager and the single-flight   *)
(* dispatch of RPCProxy.processSingleRequest.                              *)
(*                                                                         *)
(* The repository holds two revisions of the dispatcher.  rev = "svc" is   *)
(* src/src/services/proxy.ts (circuit breaker, queue with task timeout);   *)
(* rev = "p17" is src/unnamed/part_017 (config-driven networks, queue      *)
(* without timeout).  Both use the CacheManager of src/unnamed/part_006.   *)
(***************************************************************************)
EXTENDS Integers, Sequences, FiniteSets, TLC

VARIABLES
    rev,        \* which revision of RPCProxy runs: "svc" | "p17"
    cfgMaxAge,  \* config.cache.maxAge, in seconds
    pool,       \* the requests the clients of this run send
    kpc,        \* key specification: "init" | "done"
    kreq,       \* key specification: the two requests <<r1, r2>>
    kkey,       \* key specification: their cache keys <<k1, k2>>
    kpol,       \* key specification: the cache policy of r1
    dbEnabled,  \* config.cache.enableDb && config.cache.dbFile
    now,        \* Date.now(), in ms
    mem,        \* CacheManager.cache: the LRU map, oldest entry first
    db,         \* DatabaseCache: the rows of the table, [key, val, ts]
    dup,        \* CacheManager.duplicateDetector: rows [key, ts]
    inflight,   \* RPCProxy.inflight: rows [key, lead]
    wk,         \* one record per request slot: the handler and its promise
    qrunning,   \* SimpleQueue.running, per network queue
    qinterval,  \* SimpleQueue.intervalCount, per network queue (rev "svc")
    qtasks,     \* SimpleQueue.tasks, per network queue: the waiting slots
    hc,         \* client specification: one HTTPClient.makeRequest call
    lru,        \* LRU specification: one LRUCache and its maxSize
    cm,         \* cache-manager specification: the calls in progress
    bt,         \* batch specification: one batch request and its response
    sq,         \* queue specification: one SimpleQueue and its tasks
    cb          \* breaker specification: one CircuitBreaker and its calls

keyVars == <<kpc, kreq, kkey, kpol>>
cfgVars == <<rev, cfgMaxAge, dbEnabled, pool>>
cacheVars == <<mem, db>>
queueVars == <<qrunning, qinterval, qtasks>>
proxyVars == <<now, mem, db, dup, inflight, wk, qrunning, qinterval, qtasks>>
auxVars == <<hc, lru, cm, bt, sq, cb>>
vars == <<rev, cfgMaxAge, dbEnabled, pool, kpc, kreq, kkey, kpol,
          now, mem, db, dup, inflight, wk, qrunning, qinterval, qtasks, hc, lru, cm, bt, sq, cb>>

(***************************************************************************)
(* JSON values.  Every value is a record [t, s, f]: t is the JavaScript    *)
(* kind, s the text of a primitive, f the members of an object (pairs      *)
(* <<key, value>> in insertion order) or of an array (pairs <<"", value>>).*)
(***************************************************************************)
Str(x) == [t |-> "str", s |-> x, f |-> <<>>]
Num(x) == [t |-> "num", s |-> x, f |-> <<>>]
Bool(x) == [t |-> "bool", s |-> x, f |-> <<>>]
Null == [t |-> "null", s |-> "null", f |-> <<>>]
Undefined == [t |-> "undef", s |-> "undefined", f |-> <<>>]
Obj(fields) == [t |-> "obj", s |-> "", f |-> fields]
Arr(elems) == [t |-> "arr", s |-> "", f |-> [i \in 1..Len(elems) |-> <<"", elems[i]>>]]

\* The strings of the model that start with "0x".
HexStrings == {"0x0", "0x1", "0x2", "0x10", "0xA1", "0xA2", "0xB1", "0xB2", "0xD1"}

startsWith0x(x) == x \in HexStrings

\* obj.k : the member k of an object, undefined when absent or not an object.
Get(v, k) ==
    IF v.t = "obj" /\ \E i \in 1..Len(v.f) : v.f[i][1] = k
    THEN v.f[CHOOSE i \in 1..Len(v.f) : v.f[i][1] = k][2]
    ELSE Undefined

hasOwnProperty(v, k) == v.t = "obj" /\ \E i \in 1..Len(v.f) : v.f[i][1] = k

\* params[i] with JavaScript's 0-based index, undefined past the end.
ParamAt(params, i) == IF i + 1 <= Len(params) THEN params[i + 1] ELSE Undefined

\* JavaScript truthiness, as used by ||, && and !!.
Truthy(v) ==
    CASE v.t \in {"undef", "null"} -> FALSE
      [] v.t = "str" -> v.s # ""
      [] v.t = "num" -> v.s # "0"
      [] v.t = "bool" -> v.s = "true"
      [] OTHER -> TRUE

typeofObject(v) == v.t \in {"obj", "arr", "null"}

RECURSIVE JoinStr(_, _)
JoinStr(parts, sep) ==
    IF Len(parts) = 0 THEN ""
    ELSE IF Len(parts) = 1 THEN parts[1]
    ELSE parts[1] \o sep \o JoinStr(Tail(parts), sep)

\* String(v), the conversion a template literal applies.
RECURSIVE StringOf(_)
StringOf(v) ==
    CASE v.t = "obj" -> "[object Object]"
      [] v.t = "arr" ->
            JoinStr([i \in 1..Len(v.f) |->
                        IF v.f[i][2].t \in {"null", "undef"} THEN ""
                        ELSE StringOf(v.f[i][2])], ",")
      [] OTHER -> v.s

\* JSON.stringify(v): members in insertion order, no canonicalisation.
RECURSIVE JSONstringify(_)
JSONstringify(v) ==
    CASE v.t = "str" -> "\"" \o v.s \o "\""
      [] v.t = "obj" ->
            "{" \o JoinStr([i \in 1..Len(v.f) |->
                        "\"" \o v.f[i][1] \o "\":" \o JSONstringify(v.f[i][2])], ",") \o "}"
      [] v.t = "arr" ->
            "[" \o JoinStr([i \in 1..Len(v.f) |-> JSONstringify(v.f[i][2])], ",") \o "]"
      [] v.t = "undef" -> "null"
      [] OTHER -> v.s

\* The first 16 hex digits of a SHA-256 digest.  The digest is modelled as
\* collision free: it is represented by its preimage.
sha256hex16(x) == "#" \o x

(***************************************************************************)
(* CacheManager.getCacheKey and the key prefix of processSingleRequest.    *)
(***************************************************************************)
getCacheKey(method, params) ==
    LET paramCount == Len(params)
        param == ParamAt(params, 0)
        fallback == sha256hex16(method \o ":" \o JSONstringify(Arr(params)))
        callObject == ParamAt(params, 0)
        blockTag == ParamAt(params, 1)
        blockTagStr == IF blockTag.t \in {"obj", "arr"}
                       THEN JSONstringify(blockTag) ELSE StringOf(blockTag)
        twoParams ==
            IF /\ paramCount = 2
               /\ method = "eth_call"
               /\ Truthy(Get(callObject, "to"))
               /\ Truthy(Get(callObject, "data"))
            THEN method \o ":" \o StringOf(Get(callObject, "to")) \o ":"
                   \o StringOf(Get(callObject, "data")) \o ":" \o blockTagStr
            ELSE fallback
        orStr(v, dflt) == IF Truthy(v) THEN StringOf(v) ELSE dflt
    IN  IF paramCount = 0 THEN method
        ELSE IF paramCount = 1 THEN
            CASE method = "eth_getLogs" ->
                    IF param.t \in {"obj", "arr"}
                    THEN method \o ":" \o orStr(Get(param, "address"), "") \o ":"
                           \o orStr(Get(param, "fromBlock"), "0x0") \o ":"
                           \o orStr(Get(param, "toBlock"), "latest") \o ":"
                           \o (IF Truthy(Get(param, "topics"))
                               THEN JSONstringify(Get(param, "topics")) ELSE "[]")
                    ELSE twoParams
              [] method = "eth_getBlockReceipts" -> method \o ":" \o StringOf(param)
              [] OTHER ->
                    IF param.t \notin {"obj", "arr"}
                    THEN method \o ":" \o StringOf(param)
                    ELSE twoParams
        ELSE twoParams

keyPrefix(networkKey) == IF networkKey # "" THEN networkKey \o ":" ELSE ""

cacheKeyOf(r) == keyPrefix(r.network) \o getCacheKey(r.method, r.params)

(***************************************************************************)
(* The cacheability policy of the two revisions.  A policy is              *)
(* [isCacheable, infinite, maxAgeMs]; infinite stands for                  *)
(* maxAgeMs = Number.POSITIVE_INFINITY.                                    *)
(***************************************************************************)
INFINITELY_CACHEABLE ==
    {"eth_chainId", "net_version", "eth_getTransactionReceipt", "eth_getTransactionByHash"}

HISTORICAL_CACHEABLE ==
    {"eth_call", "eth_getBlockByNumber", "eth_getLogs", "eth_getStorageAt", "eth_getBalance"}

TIME_CACHEABLE == {"eth_blockNumber"}

Forever == [isCacheable |-> TRUE, infinite |-> TRUE, maxAgeMs |-> 0]

\* A policy that keeps the number of seconds where milliseconds are meant.
ForSeconds(ms) == [isCacheable |-> TRUE, infinite |-> FALSE, maxAgeMs |-> ms \div 1000]

For(ms) == [isCacheable |-> TRUE, infinite |-> FALSE, maxAgeMs |-> ms]
NotCacheable == [isCacheable |-> FALSE, infinite |-> FALSE, maxAgeMs |-> 0]

EthCallLatestMaxAgeMs == 30000

\* blockParam && typeof blockParam === 'string' && blockParam !== 'latest'
notLatestString(v) == Truthy(v) /\ v.t = "str" /\ v.s # "latest"

resolveCachePolicy(method, params, maxAge) ==
    IF method \in INFINITELY_CACHEABLE THEN Forever
    ELSE IF method \in TIME_CACHEABLE THEN For(maxAge * 1000)
    ELSE IF method \in HISTORICAL_CACHEABLE THEN
        CASE method = "eth_call" ->
                IF notLatestString(ParamAt(params, 1)) THEN Forever
                ELSE For(EthCallLatestMaxAgeMs)
          [] method = "eth_getBlockByNumber" ->
                IF notLatestString(ParamAt(params, 0)) THEN Forever ELSE NotCacheable
          [] OTHER ->
                IF \E i \in 1..Len(params) :
                      /\ params[i].t = "str"
                      /\ startsWith0x(params[i].s)
                      /\ params[i].s # "latest"
                THEN Forever ELSE NotCacheable
    ELSE NotCacheable

resolveCachePolicyForSubgraph(method, params, maxAge) ==
    IF method \in INFINITELY_CACHEABLE THEN Forever
    ELSE IF method \in TIME_CACHEABLE THEN For(maxAge * 1000)
    ELSE IF method = "eth_getLogs" THEN For(maxAge * 1000)
    ELSE IF method = "eth_call" THEN
        LET objs == {i \in 1..Len(params) : params[i].t \in {"obj", "arr"}}
            callObject == IF objs = {} THEN Undefined
                          ELSE params[CHOOSE i \in objs : \A j \in objs : i <= j]
            hasBlockHash == hasOwnProperty(callObject, "blockHash")
            hasBlockNumber == /\ Truthy(ParamAt(params, 1))
                              /\ ParamAt(params, 1).t = "str"
                              /\ startsWith0x(ParamAt(params, 1).s)
        IN  IF hasBlockHash \/ hasBlockNumber THEN Forever ELSE NotCacheable
    ELSE NotCacheable

policyOf(r) ==
    IF rev = "p17" THEN resolveCachePolicy(r.method, r.params, cfgMaxAge)
    ELSE resolveCachePolicyForSubgraph(r.method, r.params, cfgMaxAge)


\* RPCProxy.generateInflightKey: params[0] goes through String().
generateInflightKey(prefix, method, params) ==
    IF Len(params) = 0 THEN prefix \o method
    ELSE IF Len(params) = 1 THEN prefix \o method \o ":" \o StringOf(params[1])
    ELSE prefix \o method \o ":" \o JSONstringify(Arr(params))

inflightKeyOf(r) == generateInflightKey(keyPrefix(r.network), r.method, r.params)

(***************************************************************************)
(* Requests, responses and the bounds of the dispatch model.               *)
(***************************************************************************)
NumWorkers == 2
CacheMaxSize == 2

Workers == 1..NumWorkers
Networks == {"eth", "base"}

\* The clock readings the model visits.
Instants == {0, 1000, 32000}

\* config.cache.maxAge values, in seconds (0 = infinite retention).
ConfigMaxAges == {1}

DELAY_TRIGGER_THRESHOLD_MS == 100
MIN_DELAY_MS == 50
RANDOM_MAX_EXTRA_DELAY_MS == 100
\* MIN_DELAY_MS + floor(Math.random() * RANDOM_MAX_EXTRA_DELAY_MS): both ends.
DelaySamples == {MIN_DELAY_MS, MIN_DELAY_MS + RANDOM_MAX_EXTRA_DELAY_MS - 1}

QueueConcurrency == 20
QueueIntervalCap == 100
QueueTimeoutMs == 30000

Req(n, m, ps) == [network |-> n, method |-> m, params |-> ps]

FilterA1 == Obj(<< <<"address", Str("0xA1")>>, <<"fromBlock", Str("0x1")>>, <<"toBlock", Str("0x2")>> >>)
FilterA2 == Obj(<< <<"address", Str("0xA2")>>, <<"fromBlock", Str("0x1")>>, <<"toBlock", Str("0x2")>> >>)

\* The requests clients send in the dispatch model.
DispatchPool ==
    { Req("eth", "eth_getLogs", <<FilterA1>>),
      Req("eth", "eth_getLogs", <<FilterA2>>),
      Req("eth", "eth_blockNumber", <<>>),
      Req("eth", "eth_getBlockReceipts", <<Str("0x10")>>),
      Req("eth", "eth_chainId", <<>>) }

NoReq == [network |-> "", method |-> "", params |-> <<>>, id |-> Null]

WithId(r, id) == [network |-> r.network, method |-> r.method, params |-> r.params, id |-> id]

\* The id a client in slot w puts in its request.
IdOf(w) == Num(ToString(w))

Result1 == Str("0xaa")
Result2 == Str("0xbb")
RpcErrorObj == Obj(<< <<"code", Num("-32000")>>, <<"message", Str("header not found")>> >>)

Success(id, result) ==
    Obj(<< <<"jsonrpc", Str("2.0")>>, <<"id", id>>, <<"result", result>> >>)
Failure(id, err) ==
    Obj(<< <<"jsonrpc", Str("2.0")>>, <<"id", id>>, <<"error", err>> >>)

\* What HTTPClient.makeRequest hands back as response.data for a request with
\* this id; "throw" stands for a rejected makeRequest.
UpstreamOutcomes == {"result1", "null", "error", "throw"}

UpstreamData(out, id) ==
    CASE out = "result1" -> Success(id, Result1)
      [] out = "null" -> Success(id, Null)
      [] OTHER -> Failure(id, RpcErrorObj)

\* An error body that reports an internal error (-32603).
UpstreamErrorBodyInternal(id, msg) ==
    Failure(id, Obj(<< <<"code", Num("-32603")>>, <<"message", Str("Upstream error")>>,
                       <<"data", Str(msg)>> >>))

\* The body handleRPCRequestWithTarget sends when the awaited promise rejects.
UpstreamErrorBody(id, msg) ==
    Failure(id, Obj(<< <<"code", Num("-32000")>>, <<"message", Str("Upstream error")>>,
                       <<"data", Str(msg)>> >>))

\* An envelope a row of the persistent tier may hold (stored under id 7).
StoredEnvelope == Success(Num("7"), Result1)

\* The payloads a row can hold; JSON.parse inverts JSON.stringify over them.
Payloads == {Result1, Result2, Null, StoredEnvelope}

\* A parse that hands the stored text back as a string.
JSONparseText(text) == Str(text)

JSONparse(text) == CHOOSE v \in Payloads : JSONstringify(v) = text

(***************************************************************************)
(* LRUCache, on a sequence of entries [key, val, ts, readCnt, writeCnt]    *)
(* kept in the Map's insertion order.                                      *)
(***************************************************************************)
NoEntry == [key |-> "", val |-> Undefined, ts |-> 0, readCnt |-> 0, writeCnt |-> 0]

LRUhas(m, k) == \E i \in 1..Len(m) : m[i].key = k

LRUpeek(m, k) == IF LRUhas(m, k) THEN m[CHOOSE i \in 1..Len(m) : m[i].key = k] ELSE NoEntry

LRUdelete(m, k) == SelectSeq(m, LAMBDA e : e.key # k)

\* LRUCache.set of a cache constructed with maxSize.
LRUsetMax(m, k, e, maxSize) ==
    LET m1 == IF Len(m) >= maxSize /\ ~LRUhas(m, k) /\ Len(m) > 0 THEN Tail(m) ELSE m
    IN  Append(LRUdelete(m1, k), [e EXCEPT !.key = k])

LRUset(m, k, e) == LRUsetMax(m, k, e, CacheMaxSize)

\* A get that leaves the order of the Map as it is.
LRUgetInPlace(m, k) == m

LRUget(m, k) == IF LRUhas(m, k) THEN Append(LRUdelete(m, k), LRUpeek(m, k)) ELSE m

(***************************************************************************)
(* DatabaseCache, on a set of rows [key, val, ts] with key as primary key. *)
(***************************************************************************)
DbHas(d, k) == \E row \in d : row.key = k
DbGet(d, k) == CHOOSE row \in d : row.key = k
DbDelete(d, k) == {row \in d : row.key # k}
DbSet(d, k, text, ts) == DbDelete(d, k) \cup {[key |-> k, val |-> text, ts |-> ts]}

(***************************************************************************)
(* CacheManager.getFromCache, piece by piece.                              *)
(***************************************************************************)
\* A freshness test that reads maxAgeMs as seconds.
isFreshSeconds(age, pol) == pol.infinite \/ age <= pol.maxAgeMs * 1000

\* isInfinite || age <= maxAgeMs
isFresh(age, pol) == pol.infinite \/ age <= pol.maxAgeMs

isFullResponse(val) ==
    /\ val.t = "obj"
    /\ hasOwnProperty(val, "jsonrpc")
    /\ Get(val, "jsonrpc") = Str("2.0")
    /\ (hasOwnProperty(val, "result") \/ hasOwnProperty(val, "error"))

\* { ...fullResponse, id: requestId }
spreadWithId(val, requestId) ==
    IF hasOwnProperty(val, "id")
    THEN Obj([i \in 1..Len(val.f) |->
                IF val.f[i][1] = "id" THEN <<"id", requestId>> ELSE val.f[i]])
    ELSE Obj(Append(val.f, <<"id", requestId>>))

\* A tail that hands a stored envelope back as it was stored.
cachedResponseAsStored(val, requestId) ==
    IF val.t \in {"undef", "null"} THEN Undefined
    ELSE IF isFullResponse(val) THEN val
    ELSE Success(requestId, val)

\* The tail of getFromCache: the response built from a found payload.
cachedResponse(val, requestId) ==
    IF val.t \in {"undef", "null"} THEN Undefined
    ELSE IF isFullResponse(val) THEN spreadWithId(val, requestId)
    ELSE Success(requestId, val)

\* The memory branch of getFromCache on a present key.
memAfterLookup(m, k, pol) ==
    LET e == LRUpeek(m, k)
    IN  IF isFresh(now - e.ts, pol)
        THEN LRUset(LRUget(m, k), k, [e EXCEPT !.readCnt = @ + 1])
        ELSE LRUdelete(m, k)

\* A promotion that stamps the entry with the time of the lookup.
promotedNow(row) ==
    [key |-> row.key, val |-> JSONparse(row.val), ts |-> now, readCnt |-> 1, writeCnt |-> 0]

\* The promotion of a fresh row into the memory tier.
promoted(row) ==
    [key |-> row.key, val |-> JSONparse(row.val), ts |-> row.ts, readCnt |-> 1, writeCnt |-> 0]

\* writeToCache's newEntry, built before the database write is awaited.
newEntry(m, k, val) ==
    [key |-> k, val |-> val, ts |-> now,
     readCnt |-> IF LRUhas(m, k) THEN LRUpeek(m, k).readCnt ELSE 0,
     writeCnt |-> IF LRUhas(m, k) THEN LRUpeek(m, k).writeCnt + 1 ELSE 1]


(***************************************************************************)
(* RPCProxy.processSingleRequest.  A slot w holds one client request: its  *)
(* handler (pc), and when it leads, the promise it created and the         *)
(* position of that promise's async body (tpc).                            *)
(*   pc  : "idle" | "await" | "done"                                       *)
(*   tpc : "none" | "dbget" | "dbdel" | "sleep" | "queued" | "upstream"    *)
(*         | "dbset" | "end"                                               *)
(***************************************************************************)
NoHit == [age |-> 0, val |-> Undefined]

IdleSlot ==
    [pc |-> "idle", req |-> NoReq, lead |-> 0, tpc |-> "none",
     timedOut |-> FALSE,    \* the queue's timeout already rejected the promise
     due |-> 0,             \* when the pending timer (sleep, task timeout) fires
     entry |-> NoEntry,     \* writeToCache's newEntry across its await
     rpcData |-> Undefined, \* the upstream response.data of this attempt
     resp |-> Undefined,    \* the body sent to the client
     via |-> "",            \* "mem" | "db" | "upstream" | "thrown" | "timeout"
     hit |-> NoHit,         \* the entry a cache hit was built from, and its age
     wrote |-> FALSE,       \* this attempt called writeToCache
     ioErr |-> FALSE,       \* the lookup met a throwing dbCache.get or .delete
                            \* (kept until the upstream call of the slot is over)
     prior |-> Undefined]   \* body of an identical request answered before arrival

queueKey(r) == IF r.network # "" THEN r.network ELSE "default"

\* The write-through condition after the upstream response.
shouldCacheSvc(pol, rpcData) ==
    pol.isCacheable /\ Get(rpcData, "result").t # "undef"

shouldCacheP17(pol, rpcData) ==
    /\ pol.isCacheable
    /\ Get(rpcData, "result").t \notin {"undef", "null"}
    /\ ~Truthy(Get(rpcData, "error"))

shouldCache(pol, rpcData) ==
    IF rev = "p17" THEN shouldCacheP17(pol, rpcData) ELSE shouldCacheSvc(pol, rpcData)

\* SimpleQueue.processNext's guard (the second revision has no interval cap).
canStart(run, cnt) ==
    run < QueueConcurrency /\ (rev = "svc" => cnt < QueueIntervalCap)

\* The promise of leader w settles: every handler awaiting it answers.  A
\* fulfilled promise hands the same response object to all of them; a rejected
\* one makes each handler build the error body with its own request id.
Deliver(W, w, fulfilled, resp, via, msg) ==
    [v \in Workers |->
        IF W[v].pc = "await" /\ W[v].lead = w
        THEN [W[v] EXCEPT !.pc = "done", !.via = via,
                          !.resp = IF fulfilled THEN resp
                                   ELSE UpstreamErrorBody(W[v].req.id, msg)]
        ELSE W[v]]

\* A finally that leaves the settled promise in the map.
inflightKeep(I, r) == I

\* promise.finally: this.inflight.delete(inflightKey)
inflightDelete(I, r) == {e \in I : e.key # inflightKeyOf(r)}

\* SimpleQueue.add + processNext for the task of slot w.
Enqueue(W, w) ==
    LET n == queueKey(W[w].req)
    IN  IF canStart(qrunning[n], qinterval[n])
        THEN /\ wk' = [W EXCEPT ![w].tpc = "upstream", ![w].due = now + QueueTimeoutMs]
             /\ qrunning' = [qrunning EXCEPT ![n] = @ + 1]
             /\ qinterval' = [qinterval EXCEPT ![n] = IF rev = "svc" THEN @ + 1 ELSE @]
             /\ qtasks' = qtasks
        ELSE /\ wk' = [W EXCEPT ![w].tpc = "queued"]
             /\ qtasks' = [qtasks EXCEPT ![n] = Append(@, w)]
             /\ UNCHANGED <<qrunning, qinterval>>

\* The finally of processNext / process: running--, then the next waiting task.
Release(W, w) ==
    LET n == queueKey(W[w].req)
        run == qrunning[n] - 1
    IN  IF qtasks[n] # <<>> /\ canStart(run, qinterval[n])
        THEN LET h == Head(qtasks[n])
             IN  /\ wk' = [W EXCEPT ![h].tpc = "upstream", ![h].due = now + QueueTimeoutMs]
                 /\ qrunning' = [qrunning EXCEPT ![n] = run + 1]
                 /\ qinterval' = [qinterval EXCEPT ![n] = IF rev = "svc" THEN @ + 1 ELSE @]
                 /\ qtasks' = [qtasks EXCEPT ![n] = Tail(@)]
        ELSE /\ wk' = W
             /\ qrunning' = [qrunning EXCEPT ![n] = run]
             /\ UNCHANGED <<qinterval, qtasks>>

\* A detector that delays whenever the key was recorded, at whatever time.
isDuplicateSeen(k) == \E e \in dup : e.key = k

\* CacheManager.handleDuplicateRequest up to its sleep: the key is in
\* duplicateDetector and was recorded less than the threshold ago.
isDuplicate(k) == \E e \in dup : e.key = k /\ now - e.ts < DELAY_TRIGGER_THRESHOLD_MS

dupSet(D, k) == {e \in D : e.key # k} \cup {[key |-> k, ts |-> now]}

\* After a cache miss (or for an uncacheable request): the duplicate delay,
\* then the network queue, then the upstream request.
MissPath(W, w) ==
    LET k == cacheKeyOf(W[w].req)
    IN  IF isDuplicate(k)
        THEN /\ \E d \in DelaySamples :
                    wk' = [W EXCEPT ![w].tpc = "sleep", ![w].due = now + d]
             /\ UNCHANGED <<dup, qrunning, qinterval, qtasks>>
        ELSE /\ dup' = dupSet(dup, k)
             /\ Enqueue(W, w)

\* The body of an identical request that was answered before this arrival.
priorOf(r) ==
    LET same == {v \in Workers : /\ wk[v].pc = "done"
                                 /\ wk[v].req.network = r.network
                                 /\ wk[v].req.method = r.method
                                 /\ wk[v].req.params = r.params}
    IN  IF same = {} THEN Undefined
        ELSE wk[CHOOSE v \in same : \A u \in same : u <= v].resp

\* A return that records the key in the duplicate window first.
afterMemoryHitRecording(k) ==
    /\ dup' = dupSet(dup, k)
    /\ UNCHANGED <<inflight, qrunning, qinterval, qtasks>>

\* The cached response is returned: handleDuplicateRequest, the queue and the
\* upstream call are not reached, and the promise settles within the turn.
afterMemoryHit(k) == UNCHANGED <<dup, inflight, qrunning, qinterval, qtasks>>

\* A client request arrives: the synchronous part of processSingleRequest and
\* everything that runs before the first real suspension.
ArriveAs(w, r) ==
    /\ wk[w].pc = "idle"
    /\ IF w = 1 THEN TRUE ELSE wk[w - 1].pc # "idle"
    /\ LET ik == inflightKeyOf(r)
           k == cacheKeyOf(r)
           pol == policyOf(r)
           me == [IdleSlot EXCEPT !.pc = "await", !.req = r, !.lead = w,
                                  !.prior = priorOf(r)]
       IN  IF \E e \in inflight : e.key = ik
           THEN \* join the promise in flight
                /\ wk' = [wk EXCEPT ![w] =
                            [me EXCEPT !.lead = (CHOOSE e \in inflight : e.key = ik).lead]]
                /\ UNCHANGED <<mem, db, dup, inflight, qrunning, qinterval, qtasks>>
           ELSE IF pol.isCacheable /\ LRUhas(mem, k)
           THEN LET e == LRUpeek(mem, k)
                    hitResp == cachedResponse(e.val, r.id)
                IN  /\ mem' = memAfterLookup(mem, k, pol)
                    /\ db' = db
                    /\ IF isFresh(now - e.ts, pol) /\ hitResp.t # "undef"
                       THEN \* memory hit: the promise settles within the same turn
                            /\ wk' = [wk EXCEPT ![w] =
                                        [me EXCEPT !.pc = "done", !.tpc = "end", !.via = "mem",
                                                   !.resp = hitResp,
                                                   !.hit = [age |-> now - e.ts, val |-> e.val]]]
                            /\ afterMemoryHit(k)
                       ELSE /\ inflight' = inflight \cup {[key |-> ik, lead |-> w]}
                            /\ MissPath([wk EXCEPT ![w] = me], w)
           ELSE IF pol.isCacheable /\ dbEnabled
           THEN /\ wk' = [wk EXCEPT ![w] = [me EXCEPT !.tpc = "dbget"]]
                /\ inflight' = inflight \cup {[key |-> ik, lead |-> w]}
                /\ UNCHANGED <<mem, db, dup, qrunning, qinterval, qtasks>>
           ELSE /\ inflight' = inflight \cup {[key |-> ik, lead |-> w]}
                /\ UNCHANGED <<mem, db>>
                /\ MissPath([wk EXCEPT ![w] = me], w)
    /\ UNCHANGED now

\* A single request: the client of slot w sends r0 under its own id.
Arrive(w, r0) == ArriveAs(w, WithId(r0, IdOf(w)))

\* dbCache.get(key) returns (ok) or throws (~ok); getFromCache goes on from it.
DbGetReturn(w, ok) ==
    /\ wk[w].tpc = "dbget"
    /\ LET r == wk[w].req
           k == cacheKeyOf(r)
           pol == policyOf(r)
       IN  IF ok /\ DbHas(db, k)
           THEN LET row == DbGet(db, k)
                    val == JSONparse(row.val)
                    hitResp == cachedResponse(val, r.id)
                IN  IF isFresh(now - row.ts, pol)
                    THEN /\ mem' = LRUset(mem, k, promoted(row))
                         /\ db' = db
                         /\ IF hitResp.t # "undef"
                            THEN /\ wk' = Deliver(
                                        [wk EXCEPT ![w].tpc = "end",
                                                   ![w].hit = [age |-> now - row.ts, val |-> val]],
                                        w, TRUE, hitResp, "db", "")
                                 /\ inflight' = inflightDelete(inflight, r)
                                 /\ UNCHANGED <<dup, qrunning, qinterval, qtasks>>
                            ELSE /\ inflight' = inflight
                                 /\ MissPath(wk, w)
                    ELSE /\ wk' = [wk EXCEPT ![w].tpc = "dbdel"]
                         /\ UNCHANGED <<mem, db, dup, inflight, qrunning, qinterval, qtasks>>
           ELSE /\ UNCHANGED <<mem, db, inflight>>
                /\ MissPath([wk EXCEPT ![w].ioErr = @ \/ ~ok], w)
    /\ UNCHANGED now

\* dbCache.delete(key) of an expired row returns or throws.
DbDelReturn(w, ok) ==
    /\ wk[w].tpc = "dbdel"
    /\ db' = IF ok THEN DbDelete(db, cacheKeyOf(wk[w].req)) ELSE db
    /\ MissPath([wk EXCEPT ![w].ioErr = @ \/ ~ok], w)
    /\ UNCHANGED <<now, mem, inflight>>

\* The duplicate delay is over: record the key, go on to the queue.
Wake(w) ==
    /\ wk[w].tpc = "sleep"
    /\ now >= wk[w].due
    /\ dup' = dupSet(dup, cacheKeyOf(wk[w].req))
    /\ Enqueue(wk, w)
    /\ UNCHANGED <<now, mem, db, inflight>>

\* The queued task of leader w is over (returned or threw): unless the queue's
\* timeout already rejected it, the promise settles and the queue slot is freed.
Finish(W0, w, fulfilled, resp, via, msg) ==
    LET W == [W0 EXCEPT ![w].due = 0, ![w].entry = NoEntry]
    IN  IF W[w].timedOut
        THEN /\ wk' = W
             /\ UNCHANGED <<inflight, qrunning, qinterval, qtasks>>
        ELSE /\ inflight' = inflightDelete(inflight, W[w].req)
             /\ Release(Deliver(W, w, fulfilled, resp, via, msg), w)

\* httpClient.makeRequest settles; executeRequest runs to its next suspension.
UpstreamReturn(w, out) ==
    /\ wk[w].tpc = "upstream"
    /\ LET r == wk[w].req
           k == cacheKeyOf(r)
           pol == policyOf(r)
           data == UpstreamData(out, r.id)
       IN  IF out = "throw"
           THEN /\ Finish([wk EXCEPT ![w].tpc = "end", ![w].ioErr = FALSE], w, FALSE,
                          Undefined, "thrown", "Request failed")
                /\ UNCHANGED <<mem, db>>
           ELSE IF shouldCache(pol, data)
           THEN LET e == newEntry(mem, k, Get(data, "result"))
                IN  IF dbEnabled
                    THEN /\ wk' = [wk EXCEPT ![w].tpc = "dbset", ![w].rpcData = data,
                                             ![w].ioErr = FALSE,
                                             ![w].entry = e, ![w].wrote = TRUE]
                         /\ UNCHANGED <<mem, db, inflight, qrunning, qinterval, qtasks>>
                    ELSE /\ mem' = LRUset(mem, k, e)
                         /\ db' = db
                         /\ Finish([wk EXCEPT ![w].tpc = "end", ![w].rpcData = data,
                                              ![w].wrote = TRUE, ![w].ioErr = FALSE],
                                   w, TRUE, data, "upstream", "")
           ELSE /\ Finish([wk EXCEPT ![w].tpc = "end", ![w].rpcData = data,
                                         ![w].ioErr = FALSE],
                          w, TRUE, data, "upstream", "")
                /\ UNCHANGED <<mem, db>>
    /\ UNCHANGED <<now, dup>>

\* A writeToCache that lets the error of dbCache.set reject the request.
DbSetReturnRejecting(w, ok) ==
    /\ wk[w].tpc = "dbset"
    /\ LET e == wk[w].entry
       IN  IF ok
           THEN /\ db' = DbSet(db, e.key, JSONstringify(e.val), e.ts)
                /\ mem' = LRUset(mem, e.key, e)
                /\ Finish([wk EXCEPT ![w].tpc = "end"], w, TRUE, wk[w].rpcData,
                          "upstream", "")
           ELSE /\ UNCHANGED <<mem, db>>
                /\ Finish([wk EXCEPT ![w].tpc = "end"], w, FALSE,
                          Undefined, "thrown", "Database write error")
    /\ UNCHANGED <<now, dup>>

\* dbCache.set returns or throws; writeToCache then writes the memory tier.
DbSetReturn(w, ok) ==
    /\ wk[w].tpc = "dbset"
    /\ LET e == wk[w].entry
       IN  /\ db' = IF ok THEN DbSet(db, e.key, JSONstringify(e.val), e.ts) ELSE db
           /\ mem' = LRUset(mem, e.key, e)
           /\ Finish([wk EXCEPT ![w].tpc = "end"], w, TRUE, wk[w].rpcData, "upstream", "")
    /\ UNCHANGED <<now, dup>>

\* The first SimpleQueue races the task against a timer: at the timeout the
\* promise rejects and the queue slot is freed while the task itself goes on.
QueueTimeout(w) ==
    /\ rev = "svc"
    /\ wk[w].tpc \in {"upstream", "dbset"}
    /\ ~wk[w].timedOut
    /\ now >= wk[w].due
    /\ inflight' = inflightDelete(inflight, wk[w].req)
    /\ Release(Deliver([wk EXCEPT ![w].timedOut = TRUE], w, FALSE, Undefined, "timeout",
                       "Task timeout"), w)
    /\ UNCHANGED <<now, mem, db, dup>>

timerDue ==
    \E w \in Workers :
        \/ wk[w].tpc = "sleep" /\ now >= wk[w].due
        \/ rev = "svc" /\ wk[w].tpc \in {"upstream", "dbset"} /\ ~wk[w].timedOut
              /\ now >= wk[w].due

\* Time passes; a timer that is due fires before more time passes.  Every
\* step of the clock spans at least one interval of the first SimpleQueue
\* (1000 ms), whose setInterval callback sets intervalCount = 0.
TickIn(instants) ==
    /\ ~timerDue
    /\ \E t \in instants : t > now /\ now' = t
    /\ qinterval' = [n \in Networks |-> 0]
    /\ UNCHANGED <<mem, db, dup, inflight, wk, qrunning, qtasks>>

Tick == TickIn(Instants)

(***************************************************************************)
(* The dispatch specification.                                             *)
(***************************************************************************)
\* Rows the persistent tier may hold from an earlier run of the proxy.
InitDbs ==
    { {},
      {[key |-> "eth:eth_chainId", val |-> JSONstringify(StoredEnvelope), ts |-> 0],
       [key |-> "eth:eth_blockNumber", val |-> JSONstringify(Result2), ts |-> 0]} }

\* The client and the LRU specification are not running.
AuxIdle ==
    /\ hc = [pc |-> "off"]
    /\ lru = [pc |-> "off"]
    /\ cm = [pc |-> "off"]
    /\ bt = [pc |-> "off"]
    /\ sq = [pc |-> "off"]
    /\ cb = [pc |-> "off"]

KeyIdle ==
    /\ kpc = "off"
    /\ kreq = <<NoReq, NoReq>>
    /\ kkey = <<"", "">>
    /\ kpol = NotCacheable

ProxyFresh ==
    /\ now = 0
    /\ mem = <<>>
    /\ dup = {}
    /\ inflight = {}
    /\ wk = [w \in Workers |-> IdleSlot]
    /\ qrunning = [n \in Networks |-> 0]
    /\ qinterval = [n \in Networks |-> 0]
    /\ qtasks = [n \in Networks |-> <<>>]

ProxyInit ==
    /\ rev \in {"svc", "p17"}
    /\ cfgMaxAge \in ConfigMaxAges
    /\ dbEnabled \in BOOLEAN
    /\ db \in (IF dbEnabled THEN InitDbs ELSE {{}})
    /\ ProxyFresh
    /\ KeyIdle
    /\ AuxIdle

Init == ProxyInit /\ pool = DispatchPool

ArriveStep ==
    /\ \E w \in Workers, r \in pool : Arrive(w, r)
    /\ UNCHANGED <<cfgVars, keyVars, auxVars>>

DbGetStep ==
    /\ \E w \in Workers, ok \in BOOLEAN : DbGetReturn(w, ok)
    /\ UNCHANGED <<cfgVars, keyVars, auxVars>>

DbDelStep ==
    /\ \E w \in Workers, ok \in BOOLEAN : DbDelReturn(w, ok)
    /\ UNCHANGED <<cfgVars, keyVars, auxVars>>

WakeStep ==
    /\ \E w \in Workers : Wake(w)
    /\ UNCHANGED <<cfgVars, keyVars, auxVars>>

UpstreamStep ==
    /\ \E w \in Workers, out \in UpstreamOutcomes : UpstreamReturn(w, out)
    /\ UNCHANGED <<cfgVars, keyVars, auxVars>>

DbSetStep ==
    /\ \E w \in Workers, ok \in BOOLEAN : DbSetReturn(w, ok)
    /\ UNCHANGED <<cfgVars, keyVars, auxVars>>

QueueTimeoutStep ==
    /\ \E w \in Workers : QueueTimeout(w)
    /\ UNCHANGED <<cfgVars, keyVars, auxVars>>

TickStep ==
    /\ Tick
    /\ UNCHANGED <<cfgVars, keyVars, auxVars>>

Next ==
    \/ ArriveStep
    \/ DbGetStep
    \/ DbDelStep
    \/ WakeStep
    \/ UpstreamStep
    \/ DbSetStep
    \/ QueueTimeoutStep
    \/ TickStep

Spec == Init /\ [][Next]_vars

(***************************************************************************)
(* The cache specification: the same proxy, with clients that send only    *)
(* the two requests both revisions cache (one for ever, one with the       *)
(* configured TTL).                                                        *)
(***************************************************************************)
CachePool ==
    { Req("eth", "eth_blockNumber", <<>>),
      Req("eth", "eth_chainId", <<>>) }

InitCache == ProxyInit /\ pool = CachePool

SpecCache == InitCache /\ [][Next]_vars

(***************************************************************************)
(* The store specification: the proxy with the persistent tier enabled,    *)
(* clients that send eth_blockNumber, and an operator who may clear the    *)
(* cache (POST /cache/clear) between requests.                             *)
(***************************************************************************)
StorePool == { Req("eth", "eth_blockNumber", <<>>) }

InitStore == ProxyInit /\ dbEnabled /\ pool = StorePool

\* CacheManager.clearCache: the memory tier is emptied; the database part
\* reads the statistics and vacuums, which deletes no row.
ClearCache ==
    /\ mem # <<>>
    /\ mem' = <<>>
    /\ UNCHANGED <<now, db, dup, inflight, wk, qrunning, qinterval, qtasks>>

ClearCacheStep == ClearCache /\ UNCHANGED <<cfgVars, keyVars, auxVars>>

NextStore ==
    \/ ArriveStep
    \/ DbGetStep
    \/ DbDelStep
    \/ WakeStep
    \/ UpstreamStep
    \/ DbSetStep
    \/ QueueTimeoutStep
    \/ TickStep
    \/ ClearCacheStep

SpecStore == InitStore /\ [][NextStore]_vars


(***************************************************************************)
(* The TTL specification: the proxy configured with cache.maxAge = 10 s,   *)
(* clients that send eth_blockNumber, and a clock that is read at 0, 5, 12 *)
(* and 17 s.  No task lives for the 30 s of the queue's timeout.           *)
(***************************************************************************)
TtlInstants == {0, 5000, 12000, 17000}

InitTtl ==
    /\ rev \in {"svc", "p17"}
    /\ cfgMaxAge = 10
    /\ dbEnabled \in BOOLEAN
    /\ db \in (IF dbEnabled THEN InitDbs ELSE {{}})
    /\ pool = StorePool
    /\ ProxyFresh
    /\ KeyIdle
    /\ AuxIdle

TtlTickStep ==
    /\ TickIn(TtlInstants)
    /\ UNCHANGED <<cfgVars, keyVars, auxVars>>

NextTtl ==
    \/ ArriveStep
    \/ DbGetStep
    \/ DbDelStep
    \/ WakeStep
    \/ UpstreamStep
    \/ DbSetStep
    \/ TtlTickStep

SpecTtl == InitTtl /\ [][NextTtl]_vars

(***************************************************************************)
(* The key specification: getCacheKey and the cacheability policy applied  *)
(* to pairs of requests.                                                   *)
(***************************************************************************)
CallAD == Obj(<< <<"to", Str("0xA1")>>, <<"data", Str("0xD1")>> >>)
CallDA == Obj(<< <<"data", Str("0xD1")>>, <<"to", Str("0xA1")>> >>)
CallFrom == Obj(<< <<"to", Str("0xA1")>>, <<"data", Str("0xD1")>>, <<"from", Str("0xA2")>> >>)
CallValue == Obj(<< <<"to", Str("0xA1")>>, <<"value", Str("0x1")>> >>)
CallValueRev == Obj(<< <<"value", Str("0x1")>>, <<"to", Str("0xA1")>> >>)
CallHash == Obj(<< <<"to", Str("0xA1")>>, <<"data", Str("0xD1")>>, <<"blockHash", Str("0xB1")>> >>)
FilterA1Rev == Obj(<< <<"toBlock", Str("0x2")>>, <<"fromBlock", Str("0x1")>>, <<"address", Str("0xA1")>> >>)
FilterLatest == Obj(<< <<"address", Str("0xA1")>>, <<"fromBlock", Str("0x1")>>, <<"toBlock", Str("latest")>> >>)
FilterHashB1 == Obj(<< <<"blockHash", Str("0xB1")>> >>)
FilterHashB2 == Obj(<< <<"blockHash", Str("0xB2")>> >>)

\* Method and params of the requests the key specification draws from.
KeyShapes ==
    { <<"eth_chainId", <<>>>>,
      <<"eth_blockNumber", <<>>>>,
      <<"eth_getBlockReceipts", <<Str("0x10")>>>>,
      <<"eth_getTransactionReceipt", <<Str("0xB1")>>>>,
      <<"eth_getLogs", <<FilterA1>>>>,
      <<"eth_getLogs", <<FilterA1Rev>>>>,
      <<"eth_getLogs", <<FilterA2>>>>,
      <<"eth_getLogs", <<FilterLatest>>>>,
      <<"eth_getLogs", <<FilterHashB1>>>>,
      <<"eth_getLogs", <<FilterHashB2>>>>,
      <<"eth_call", <<CallAD, Str("0x2")>>>>,
      <<"eth_call", <<CallDA, Str("0x2")>>>>,
      <<"eth_call", <<CallFrom, Str("0x2")>>>>,
      <<"eth_call", <<CallAD, Str("latest")>>>>,
      <<"eth_call", <<CallAD, Str("pending")>>>>,
      <<"eth_call", <<CallHash, Str("latest")>>>>,
      <<"eth_call", <<CallValue, Str("0x2")>>>>,
      <<"eth_call", <<CallValueRev, Str("0x2")>>>>,
      <<"eth_getBlockByNumber", <<Str("0x2"), Bool("false")>>>>,
      <<"eth_getBlockByNumber", <<Str("latest"), Bool("false")>>>>,
      <<"eth_getBlockByNumber", <<Str("finalized"), Bool("false")>>>>,
      <<"eth_getBalance", <<Str("0xA1"), Str("0x2")>>>>,
      <<"eth_getBalance", <<Str("0xA1"), Str("latest")>>>>,
      <<"eth_getStorageAt", <<Str("0xA1"), Str("0x0"), Str("0x2")>>>>,
      <<"eth_getStorageAt", <<Str("0xA1"), Str("0x0"), Str("safe")>>>> }

KeyPool == {Req(n, sh[1], sh[2]) : n \in Networks, sh \in KeyShapes}

KeyIds == {Num("1"), Num("2")}

InitKey ==
    /\ rev \in {"svc", "p17"}
    /\ cfgMaxAge \in ConfigMaxAges
    /\ dbEnabled = FALSE
    /\ pool = {}
    /\ db = {}
    /\ ProxyFresh
    /\ AuxIdle
    /\ kpc = "init"
    /\ kreq = <<NoReq, NoReq>>
    /\ kkey = <<"", "">>
    /\ kpol = NotCacheable

\* Two requests arrive; the proxy derives the cache key of each and the cache
\* policy of the first, as processSingleRequest does.
ComputeKeys ==
    /\ kpc = "init"
    /\ \E r1 \in KeyPool, r2 \in KeyPool, id1 \in KeyIds, id2 \in KeyIds :
          /\ kreq' = <<WithId(r1, id1), WithId(r2, id2)>>
          /\ kkey' = <<cacheKeyOf(r1), cacheKeyOf(r2)>>
          /\ kpol' = policyOf(r1)
    /\ kpc' = "done"
    /\ UNCHANGED <<cfgVars, proxyVars, auxVars>>

NextKey == ComputeKeys

SpecKey == InitKey /\ [][NextKey]_vars


(***************************************************************************)
(* The upstream exchange of one dispatch.  Three revisions:                *)
(*   "h1"  HTTPClient.makeRequest, src/src/client/http-client.ts:21-106    *)
(*   "h2"  HTTPClient.makeRequest with health tracking and                 *)
(*         makeRequestWithRetry, src/src/client/http-client.ts:405-541     *)
(*   "ps"  ProxyService.handleRequest, src/src/proxy.ts:83-98              *)
(***************************************************************************)
MaxRetries == 2
InitialTimeoutMs == 2000
UnhealthyAfter == 3

ClientRevs == {"h1", "h2", "ps"}

\* Error messages of the upstreams, with what toLowerCase and includes give.
MsgTrie == "missing trie node"
MsgHeader == "Header Not Found"
MsgNoHistory == "no historical RPC available"
MsgParams == "invalid params"
MsgNetwork == "Network error: timeout of 10000ms exceeded"

toLowerCase(msg) ==
    CASE msg = MsgHeader -> "header not found"
      [] msg = MsgNoHistory -> "no historical rpc available"
      [] msg = MsgNetwork -> "network error: timeout of 10000ms exceeded"
      [] OTHER -> msg

includes(msg, sub) ==
    <<msg, sub>> \in { <<"missing trie node", "missing trie node">>,
                       <<"header not found", "header not found">>,
                       <<"Header Not Found", "Header Not Found">>,
                       <<MsgNetwork, "Network error">> }

RpcError(code, msg) == Obj(<< <<"code", Num(code)>>, <<"message", Str(msg)>> >>)

\* What an upstream can answer with a status below 500; "throw" stands for a
\* rejected axios.post (status 500 and above, timeout, no connection).
PrimaryAnswers == {"ok", "null", "emptystr", "emptyarr", "trie", "header", "nohistory", "params"}
FallbackAnswers == {"ok", "params"}
ThrowKinds == {"503", "timeout"}

AnswerData(url, ans, id) ==
    CASE ans = "ok" -> Success(id, IF url = "primary" THEN Result1 ELSE Result2)
      [] ans = "null" -> Success(id, Null)
      [] ans = "emptystr" -> Success(id, Str(""))
      [] ans = "emptyarr" -> Success(id, Arr(<<>>))
      [] ans = "trie" -> Failure(id, RpcError("-32000", MsgTrie))
      [] ans = "header" -> Failure(id, RpcError("-32000", MsgHeader))
      [] ans = "nohistory" -> Failure(id, RpcError("-32801", MsgNoHistory))
      [] OTHER -> Failure(id, RpcError("-32602", MsgParams))

\* A rejected axios.post: the AxiosError, told apart by upstream and kind.
NoErr == [url |-> "", kind |-> "", formatted |-> FALSE]
AxiosErr(url, kind) == [url |-> url, kind |-> kind, formatted |-> FALSE]

statusOf(err) == IF err.kind = "503" THEN 503 ELSE 0

shouldNotRetry(err) ==
    LET status == statusOf(err)
    IN  status # 0 /\ status >= 400 /\ status < 500 /\ status # 429

formatError(err) == [err EXCEPT !.formatted = TRUE]

\* error.message, as handleRPCRequestWithTarget reads it.
messageOf(err) ==
    IF err.formatted
    THEN (IF err.kind = "503" THEN "HTTP 503 Service Unavailable"
          ELSE "Request timeout - upstream server did not respond in time")
    ELSE (IF err.kind = "503" THEN "Request failed with status code 503"
          ELSE "timeout of 30000ms exceeded")

subgraphCriticalMethods ==
    {"eth_call", "eth_getLogs", "eth_getBlockByNumber", "eth_getBlockByHash",
     "eth_getBlockReceipts", "eth_getTransactionReceipt", "eth_getStorageAt",
     "eth_getBalance"}

historicalBlockParams == {"fromBlock", "toBlock", "blockNumber", "blockHash"}

isHistoricalRequest(params) ==
    \E i \in 1..Len(params) :
        LET param == params[i]
        IN  \/ /\ param.t = "str"
               /\ param.s # "latest" /\ param.s # "pending" /\ startsWith0x(param.s)
            \/ /\ param.t \in {"obj", "arr"}
               /\ \E key \in historicalBlockParams :
                      /\ Truthy(Get(param, key))
                      /\ Get(param, key) # Str("latest")
                      /\ Get(param, key) # Str("pending")

shouldTryFallback(method, params, responseData) ==
    /\ method \in subgraphCriticalMethods
    /\ isHistoricalRequest(params)
    /\ \/ Get(Get(responseData, "error"), "code") = Num("-32000")
       \/ Get(Get(responseData, "error"), "code") = Num("-32801")
       \/ Get(responseData, "result").t \in {"null", "undef"}
       \/ /\ method = "eth_getLogs"
          /\ Get(responseData, "result").t = "arr"
          /\ Len(Get(responseData, "result").f) = 0

\* ProxyService.shouldFallback
shouldFallback(res) ==
    LET message == Get(Get(res, "error"), "message")
    IN  IF Truthy(res) /\ Truthy(Get(res, "error")) /\ Truthy(message)
           /\ includes(message.s, "Network error")
        THEN TRUE
        ELSE IF Truthy(res) /\ Truthy(Get(res, "error"))
        THEN LET msg == toLowerCase(message.s)
             IN  \/ includes(msg, "missing trie node")
                 \/ includes(msg, "header not found")
                 \/ includes(msg, "unknown block")
                 \/ includes(msg, "state not available")
                 \/ includes(msg, "historical state")
                 \/ includes(msg, "is not available")
        ELSE FALSE

\* ProxyService.upstreamRequest turns a rejected axios.post into this object.
NetworkErrorObject == Obj(<< <<"error", RpcError("-32000", MsgNetwork)>> >>)

(* Upstream health, per upstream: [isHealthy, fails, stale], stale meaning  *)
(* that lastFailure lies more than five minutes back.                       *)
FreshHealth == [isHealthy |-> TRUE, fails |-> 0, stale |-> FALSE]

HealthInits ==
    { FreshHealth,
      [isHealthy |-> TRUE, fails |-> 2, stale |-> FALSE],
      [isHealthy |-> FALSE, fails |-> 3, stale |-> FALSE],
      [isHealthy |-> FALSE, fails |-> 3, stale |-> TRUE] }

recordUpstreamSuccess(h) == [h EXCEPT !.isHealthy = TRUE, !.fails = 0]

\* consecutiveFailures counts on; the model stops counting at the threshold.
recordUpstreamFailure(h) ==
    LET n == IF h.fails < UnhealthyAfter THEN h.fails + 1 ELSE h.fails
    IN  [isHealthy |-> IF n >= UnhealthyAfter THEN FALSE ELSE h.isHealthy,
         fails |-> n, stale |-> FALSE]

\* isUpstreamHealthy: the health record after the call, and its answer.
afterHealthCheck(h) ==
    IF ~h.isHealthy /\ h.stale THEN [h EXCEPT !.isHealthy = TRUE, !.fails = 0] ELSE h

isUpstreamHealthy(h) == afterHealthCheck(h).isHealthy

\* Requests of the client specification.
ClientShapes ==
    { <<"eth_call", <<CallAD, Str("0x2")>>>>,
      <<"eth_call", <<CallAD, Str("latest")>>>>,
      <<"eth_getCode", <<Str("0xA1"), Str("0x2")>>>>,
      <<"eth_getLogs", <<FilterA1>>>>,
      <<"eth_blockNumber", <<>>>> }

ClientId == Num("5")

targetOf(call) == IF call \in {"P", "R"} THEN "primary" ELSE "fallback"

(* hc.call names the exchange that is awaited:                              *)
(*   "P" primary, "R" primary again after a failed fallback (h2),           *)
(*   "D" fallback instead of an unhealthy primary (h2),                     *)
(*   "S" fallback after a fallback-worthy primary response,                 *)
(*   "C" fallback after a failed primary.                                   *)
ClientStart ==
    [pc |-> "start", crev |-> "h1", req |-> NoReq, hasFallback |-> FALSE, retries |-> 0,
     call |-> "", attempt |-> 0, timeoutMs |-> 0,
     response |-> Undefined, primaryError |-> NoErr,
     health |-> [primary |-> FreshHealth, fallback |-> FreshHealth],
     out |-> [kind |-> "", data |-> Undefined, err |-> NoErr],
     body |-> Undefined,          \* what the client of the proxy receives
     nPrimary |-> 0,              \* HTTP requests sent to the primary
     nFallback |-> 0,             \* HTTP requests sent to the fallback
     primaryData |-> Undefined,   \* the first answer of the primary
     primaryThrew |-> FALSE,      \* the first exchange with the primary failed
     fbData |-> Undefined,        \* the last answer of the fallback
     fbErr |-> NoErr,             \* the last error of the fallback
     anyAnswer |-> FALSE,         \* some upstream answered with status < 500
     delays |-> <<>>,             \* the backoff sleeps: <<call, base, actual>>
     sleptBeforeFallback |-> FALSE]

InitClientStates ==
    { [ClientStart EXCEPT !.crev = cr, !.req = WithId(Req("eth", sh[1], sh[2]), ClientId),
                          !.hasFallback = fb, !.retries = n,
                          !.health = [primary |-> hp, fallback |-> hf]] :
        cr \in ClientRevs, sh \in ClientShapes, fb \in BOOLEAN, n \in 0..MaxRetries,
        hp \in HealthInits, hf \in HealthInits }

\* A run the program can be in: health is only kept by "h2", retries only
\* read there, and a ProxyService network always names a fallback.
ClientConfigOk(c) ==
    /\ c.crev # "h2" => c.health = ClientStart.health /\ c.retries = 0
    /\ c.crev = "ps" => c.hasFallback
    /\ ~c.hasFallback => c.health.fallback = FreshHealth

\* The body handleRPCRequestWithTarget (or ProxyService's caller) sends.
clientBody(c, kind, data, err) ==
    IF kind = "resolved" THEN data ELSE UpstreamErrorBody(c.req.id, messageOf(err))

finished(c, kind, data, err) ==
    [c EXCEPT !.pc = "done", !.call = "", !.attempt = 0, !.timeoutMs = 0,
              !.out = [kind |-> kind, data |-> data, err |-> err],
              !.body = clientBody(c, kind, data, err)]

\* axios.post to the target of `call` is sent.
sent(c, call, attempt, timeoutMs) ==
    [c EXCEPT !.pc = "http", !.call = call, !.attempt = attempt, !.timeoutMs = timeoutMs,
              !.nPrimary = IF targetOf(call) = "primary" THEN @ + 1 ELSE @,
              !.nFallback = IF targetOf(call) = "fallback" THEN @ + 1 ELSE @]

\* makeRequest / handleRequest up to the first axios.post.
Begin ==
    /\ hc.pc = "start"
    /\ hc' = IF hc.crev = "h2"
             THEN LET c == [hc EXCEPT !.health.primary = afterHealthCheck(@)]
                  IN  IF ~c.health.primary.isHealthy /\ c.hasFallback
                      THEN sent(c, "D", 0, InitialTimeoutMs)
                      ELSE sent(c, "P", 0, InitialTimeoutMs)
             ELSE sent(hc, "P", 0, 0)

\* The catch (primaryError) block of makeRequest, entered with error err.
primaryCatch(c0, err) ==
    LET c == [c0 EXCEPT !.primaryError = err]
    IN  IF c.crev = "h1"
        THEN IF c.hasFallback THEN sent(c, "C", 0, 0)
             ELSE finished(c, "thrown", Undefined, err)
        ELSE LET c1 == IF c.hasFallback
                       THEN [c EXCEPT !.health.fallback = afterHealthCheck(@)]
                       ELSE c
             IN  IF c1.hasFallback /\ c1.health.fallback.isHealthy
                 THEN sent(c1, "C", 0, InitialTimeoutMs)
                 ELSE finished(c1, "thrown", Undefined, err)

\* makeRequestWithRetry (h2) or tryUpstream (h1) of exchange c.call threw err.
exchangeThrew(c, err) ==
    CASE c.call \in {"P", "D", "R"} -> primaryCatch(c, err)
      [] c.call = "S" ->
            IF c.crev = "h1"
            THEN finished(c, "resolved", c.response, NoErr)
            ELSE sent(c, "R", 0, 0)
      [] OTHER -> \* "C"
            IF c.crev = "h1"
            THEN finished(c, "thrown", Undefined, c.primaryError)
            ELSE finished(c, "thrown", Undefined, err)

\* The exchange c.call answered with data.
exchangeAnswered(c0, data) ==
    LET c == [c0 EXCEPT !.response = data]
    IN  IF c.call = "P"
        THEN IF shouldTryFallback(c.req.method, c.req.params, data) /\ c.hasFallback
             THEN IF c.crev = "h1" THEN sent(c, "S", 0, 0)
                  ELSE LET c1 == [c EXCEPT !.health.fallback = afterHealthCheck(@)]
                       IN  IF c1.health.fallback.isHealthy
                           THEN sent(c1, "S", 0, InitialTimeoutMs)
                           ELSE finished(c1, "resolved", data, NoErr)
             ELSE finished(c, "resolved", data, NoErr)
        ELSE finished(c, "resolved", data, NoErr)

\* Ghost bookkeeping of an answer or an error of the awaited axios.post.
noteAnswer(c, data) ==
    [c EXCEPT !.anyAnswer = TRUE,
              !.primaryData = IF c.call = "P" /\ c.nPrimary = 1 /\ ~c.primaryThrew THEN data ELSE @,
              !.fbData = IF targetOf(c.call) = "fallback" THEN data ELSE @]

noteError(c, err) ==
    [c EXCEPT !.primaryThrew = IF c.call = "P" /\ c.nPrimary = 1 THEN TRUE ELSE @,
              !.fbErr = IF targetOf(c.call) = "fallback" THEN err ELSE @]

\* HTTPClient: the awaited axios.post answers with a status below 500.
HttpAnswer(ans) ==
    /\ hc.pc = "http"
    /\ hc.crev \in {"h1", "h2"}
    /\ ans \in (IF targetOf(hc.call) = "primary" THEN PrimaryAnswers ELSE FallbackAnswers)
    /\ LET data == AnswerData(targetOf(hc.call), ans, hc.req.id)
           c == noteAnswer(hc, data)
           c1 == IF c.crev = "h2" /\ c.call # "R"
                 THEN [c EXCEPT !.health[targetOf(c.call)] = recordUpstreamSuccess(@)]
                 ELSE c
       IN  hc' = exchangeAnswered(c1, data)

\* HTTPClient: the awaited axios.post rejects.
HttpThrow(kind) ==
    /\ hc.pc = "http"
    /\ hc.crev \in {"h1", "h2"}
    /\ LET err == AxiosErr(targetOf(hc.call), kind)
           c == noteError(hc, err)
       IN  IF c.crev = "h1" \/ c.call = "R"
           THEN hc' = exchangeThrew(c, err)
           ELSE LET c1 == [c EXCEPT !.health[targetOf(c.call)] = recordUpstreamFailure(@)]
                IN  IF shouldNotRetry(err) \/ c1.attempt = c1.retries
                    THEN hc' = exchangeThrew(c1, formatError(err))
                    ELSE \E jitter \in {0, (c1.timeoutMs \div 10) - 1} :
                            hc' = [c1 EXCEPT
                                     !.pc = "sleep",
                                     !.delays = Append(@, <<c1.call, c1.timeoutMs,
                                                            c1.timeoutMs + jitter>>),
                                     !.sleptBeforeFallback =
                                         IF c1.nFallback = 0 THEN TRUE ELSE @]

\* The backoff sleep of makeRequestWithRetry is over: the next attempt.
BackoffOver ==
    /\ hc.pc = "sleep"
    /\ hc' = sent(hc, hc.call, hc.attempt + 1, hc.timeoutMs * 2)

\* ProxyService.upstreamRequest returns: the answer, or the network error
\* object it builds from a rejected axios.post.
PsReturn(ans) ==
    /\ hc.pc = "http"
    /\ hc.crev = "ps"
    /\ ans \in (IF targetOf(hc.call) = "primary" THEN PrimaryAnswers ELSE FallbackAnswers)
               \cup {"throw"}
    /\ LET threw == ans = "throw"
           data == IF threw THEN NetworkErrorObject
                   ELSE AnswerData(targetOf(hc.call), ans, hc.req.id)
           c == IF threw THEN noteError(hc, AxiosErr(targetOf(hc.call), "timeout"))
                ELSE noteAnswer(hc, data)
           c1 == [c EXCEPT !.response = data]
       IN  hc' = IF c.call = "P" /\ shouldFallback(data)
                 THEN sent(c1, "S", 0, 0)
                 ELSE finished(c1, "resolved", data, NoErr)

ClientIdleRest ==
    /\ rev = "svc"
    /\ cfgMaxAge \in ConfigMaxAges
    /\ dbEnabled = FALSE
    /\ pool = {}
    /\ db = {}
    /\ ProxyFresh
    /\ KeyIdle

InitClient ==
    /\ ClientIdleRest
    /\ lru = [pc |-> "off"]
    /\ cm = [pc |-> "off"]
    /\ bt = [pc |-> "off"]
    /\ sq = [pc |-> "off"]
    /\ cb = [pc |-> "off"]
    /\ hc \in {c \in InitClientStates : ClientConfigOk(c)}

BeginStep == Begin /\ UNCHANGED <<cfgVars, keyVars, proxyVars, lru, cm, bt, sq, cb>>

HttpAnswerStep ==
    /\ \E ans \in PrimaryAnswers \cup FallbackAnswers : HttpAnswer(ans)
    /\ UNCHANGED <<cfgVars, keyVars, proxyVars, lru, cm, bt, sq, cb>>

HttpThrowStep ==
    /\ \E kind \in ThrowKinds : HttpThrow(kind)
    /\ UNCHANGED <<cfgVars, keyVars, proxyVars, lru, cm, bt, sq, cb>>

BackoffOverStep == BackoffOver /\ UNCHANGED <<cfgVars, keyVars, proxyVars, lru, cm, bt, sq, cb>>

PsReturnStep ==
    /\ \E ans \in PrimaryAnswers \cup FallbackAnswers \cup {"throw"} : PsReturn(ans)
    /\ UNCHANGED <<cfgVars, keyVars, proxyVars, lru, cm, bt, sq, cb>>

NextClient ==
    \/ BeginStep
    \/ HttpAnswerStep
    \/ HttpThrowStep
    \/ BackoffOverStep
    \/ PsReturnStep

SpecClient == InitClient /\ [][NextClient]_vars


(***************************************************************************)
(* The LRU specification: one LRUCache, constructed with the configured    *)
(* cache.maxSize, under set, get, delete and clear.  The configuration     *)
(* takes maxSize from parseInt without a check, 0 included.                *)
(***************************************************************************)
LruMaxSize == 3
LruMaxOps == 6

LruKeys == {"k1", "k2", "k3", "k4"}
LruVals == {"x", "y"}

\* Beside the cache the specification keeps a logical clock that counts the
\* accesses (a set, or a get that returned a value), for every key the cache
\* holds the reading of that clock at the key's last access, and the keys the
\* latest operation evicted.
InitLRU ==
    /\ ClientIdleRest
    /\ hc = [pc |-> "off"]
    /\ cm = [pc |-> "off"]
    /\ bt = [pc |-> "off"]
    /\ sq = [pc |-> "off"]
    /\ cb = [pc |-> "off"]
    /\ lru \in {[pc |-> "on", maxSize |-> n, cache |-> <<>>, clock |-> 0,
                  last |-> [k \in LruKeys |-> 0], evicted |-> {}] : n \in 0..LruMaxSize}

\* The access record after key k was accessed and the cache became c.
LruAccessed(k, c) ==
    [j \in LruKeys |-> IF ~LRUhas(c, j) THEN 0
                       ELSE IF j = k THEN lru.clock + 1
                       ELSE lru.last[j]]

LruSet(k, v) ==
    /\ lru.clock < LruMaxOps
    /\ LET c == LRUsetMax(lru.cache, k, [key |-> k, val |-> v], lru.maxSize)
       IN  lru' = [lru EXCEPT !.cache = c, !.clock = @ + 1, !.last = LruAccessed(k, c),
                              !.evicted = {lru.cache[i].key : i \in 1..Len(lru.cache)}
                                            \ {c[i].key : i \in 1..Len(c)}]

LruGet(k) ==
    /\ lru.clock < LruMaxOps
    /\ LRUhas(lru.cache, k)
    /\ LET c == LRUget(lru.cache, k)
       IN  lru' = [lru EXCEPT !.cache = c, !.clock = @ + 1, !.last = LruAccessed(k, c),
                              !.evicted = {}]

LruDelete(k) ==
    /\ LRUhas(lru.cache, k)
    /\ lru' = [lru EXCEPT !.cache = LRUdelete(@, k), !.last[k] = 0, !.evicted = {}]

LruClear ==
    /\ lru.cache # <<>>
    /\ lru' = [lru EXCEPT !.cache = <<>>, !.last = [k \in LruKeys |-> 0],
                           !.evicted = {}]

LruSetStep ==
    /\ \E k \in LruKeys, v \in LruVals : LruSet(k, v)
    /\ UNCHANGED <<cfgVars, keyVars, proxyVars, hc, cm, bt, sq, cb>>

LruGetStep ==
    /\ \E k \in LruKeys : LruGet(k)
    /\ UNCHANGED <<cfgVars, keyVars, proxyVars, hc, cm, bt, sq, cb>>

LruDeleteStep ==
    /\ \E k \in LruKeys : LruDelete(k)
    /\ UNCHANGED <<cfgVars, keyVars, proxyVars, hc, cm, bt, sq, cb>>

LruClearStep == LruClear /\ UNCHANGED <<cfgVars, keyVars, proxyVars, hc, cm, bt, sq, cb>>

NextLRU ==
    \/ LruSetStep
    \/ LruGetStep
    \/ LruDeleteStep
    \/ LruClearStep

SpecLRU == InitLRU /\ [][NextLRU]_vars


(***************************************************************************)
(* The cache-manager specification: one CacheManager (src/unnamed/part_006)*)
(* under the calls the dispatcher makes, getFromCache(key, maxAgeMs, id),  *)
(* writeToCache(key, result) and clearCache(), one call after the other,   *)
(* and under its hourly cleanupExpiredEntries, which runs between the      *)
(* steps of a call.                                                        *)
(* The memory tier, the persistent tier and the clock are mem, db and now. *)
(***************************************************************************)
CmMaxOps == 4
CmCallers == {1}
CleanupIntervalMs == 3600000

CmPool ==
    { Req("eth", "eth_blockNumber", <<>>),
      Req("eth", "eth_chainId", <<>>),
      Req("eth", "net_version", <<>>) }

CmKeys == {cacheKeyOf(r) : r \in CmPool}

\* The clock readings: the start, half a second before the first cleanup, and
\* the first cleanup.
CmInstants == {0, CleanupIntervalMs - 500, CleanupIntervalMs}

CmIdle == [pc |-> "idle", req |-> NoReq, entry |-> NoEntry]

\* What the latest step returned from getFromCache, if it returned from one:
\* the payload found (undefined on a miss) and the tier it came from.  The
\* tier is "cleared" when the step is the return of clearCache.
CmNoRet == [key |-> "", val |-> Undefined, tier |-> ""]
CmRet(k, val, tier) == [key |-> k, val |-> val, tier |-> tier]

\* kept[k] is the value of the latest writeToCache(k, v) that returned, until
\* the next write or delete of k (undefined then).  old is the set of keys
\* that a tier still held when the latest clearCache returned and that were
\* not written since.
CmStart ==
    [pc |-> "on", calls |-> [c \in CmCallers |-> CmIdle], ops |-> 0,
     sweep |-> "wait", kept |-> [k \in CmKeys |-> Undefined], ret |-> CmNoRet,
     old |-> {}]

\* Both revisions of the dispatcher give the three requests the same policy.
InitCM ==
    /\ rev = "svc"
    /\ cfgMaxAge \in ConfigMaxAges
    /\ dbEnabled \in BOOLEAN
    /\ db \in (IF dbEnabled THEN InitDbs ELSE {{}})
    /\ pool = CmPool
    /\ ProxyFresh
    /\ KeyIdle
    /\ hc = [pc |-> "off"]
    /\ lru = [pc |-> "off"]
    /\ bt = [pc |-> "off"]
    /\ sq = [pc |-> "off"]
    /\ cb = [pc |-> "off"]
    /\ cm = CmStart

\* getFromCache up to its first await, or to its return.
CmGet(c, r) ==
    /\ cm.calls[c].pc = "idle"
    /\ cm.ops < CmMaxOps
    /\ LET k == cacheKeyOf(r)
           pol == policyOf(r)
       IN  IF LRUhas(mem, k)
           THEN LET e == LRUpeek(mem, k)
                IN  /\ mem' = memAfterLookup(mem, k, pol)
                    /\ cm' = IF isFresh(now - e.ts, pol)
                             THEN [cm EXCEPT !.ops = @ + 1, !.ret = CmRet(k, e.val, "mem")]
                             ELSE [cm EXCEPT !.ops = @ + 1, !.ret = CmRet(k, Undefined, "miss"),
                                             !.kept[k] = Undefined]
           ELSE IF dbEnabled
           THEN /\ mem' = mem
                /\ cm' = [cm EXCEPT !.ops = @ + 1, !.ret = CmNoRet,
                                    !.calls[c] = [CmIdle EXCEPT !.pc = "dbget", !.req = r]]
           ELSE /\ mem' = mem
                /\ cm' = [cm EXCEPT !.ops = @ + 1, !.ret = CmRet(k, Undefined, "miss")]
    /\ UNCHANGED <<now, db>>

\* dbCache.get returns (ok) or throws.
CmDbGetReturn(c, ok) ==
    /\ cm.calls[c].pc = "dbget"
    /\ LET r == cm.calls[c].req
           k == cacheKeyOf(r)
           pol == policyOf(r)
       IN  IF ok /\ DbHas(db, k)
           THEN LET row == DbGet(db, k)
                IN  IF isFresh(now - row.ts, pol)
                    THEN /\ mem' = LRUset(mem, k, promoted(row))
                         /\ cm' = [cm EXCEPT !.calls[c] = CmIdle,
                                             !.ret = CmRet(k, JSONparse(row.val), "db")]
                    ELSE /\ mem' = mem
                         /\ cm' = [cm EXCEPT !.calls[c].pc = "dbdel", !.ret = CmNoRet]
           ELSE /\ mem' = mem
                /\ cm' = [cm EXCEPT !.calls[c] = CmIdle, !.ret = CmRet(k, Undefined, "miss")]
    /\ UNCHANGED <<now, db>>

\* dbCache.delete of an expired row returns or throws.
CmDbDelReturn(c, ok) ==
    /\ cm.calls[c].pc = "dbdel"
    /\ LET k == cacheKeyOf(cm.calls[c].req)
       IN  /\ db' = IF ok THEN DbDelete(db, k) ELSE db
           /\ cm' = [cm EXCEPT !.calls[c] = CmIdle, !.ret = CmRet(k, Undefined, "miss"),
                               !.kept[k] = IF ok THEN Undefined ELSE @]
    /\ UNCHANGED <<now, mem>>

\* writeToCache up to its await, or to its return.
CmPut(c, r, v) ==
    /\ cm.calls[c].pc = "idle"
    /\ cm.ops < CmMaxOps
    /\ LET k == cacheKeyOf(r)
           e == newEntry(mem, k, v)
       IN  IF dbEnabled
           THEN /\ mem' = mem
                /\ cm' = [cm EXCEPT !.ops = @ + 1, !.ret = CmNoRet, !.kept[k] = Undefined,
                                    !.calls[c] = [pc |-> "dbset", req |-> r, entry |-> e]]
           ELSE /\ mem' = LRUset(mem, k, e)
                /\ cm' = [cm EXCEPT !.ops = @ + 1, !.ret = CmNoRet, !.kept[k] = v,
                                    !.old = @ \ {k}]
    /\ UNCHANGED <<now, db>>

\* dbCache.set returns or throws; the memory tier is written in either case.
CmDbSetReturn(c, ok) ==
    /\ cm.calls[c].pc = "dbset"
    /\ LET e == cm.calls[c].entry
       IN  /\ db' = IF ok THEN DbSet(db, e.key, JSONstringify(e.val), e.ts) ELSE db
           /\ mem' = LRUset(mem, e.key, e)
           /\ cm' = [cm EXCEPT !.calls[c] = CmIdle, !.ret = CmNoRet, !.kept[e.key] = e.val,
                               !.old = @ \ {e.key}]
    /\ UNCHANGED now

\* The keys that the memory tier m or the persistent tier d holds.
CmHeld(m, d) == {k \in CmKeys : LRUhas(m, k) \/ DbHas(d, k)}

CmCleared == CmRet("", Undefined, "cleared")

\* clearCache up to its first await, or to its return: the memory tier is
\* emptied.
CmClear(c) ==
    /\ cm.calls[c].pc = "idle"
    /\ cm.ops < CmMaxOps
    /\ mem' = <<>>
    /\ cm' = IF dbEnabled
             THEN [cm EXCEPT !.ops = @ + 1, !.ret = CmNoRet,
                             !.kept = [k \in CmKeys |-> Undefined],
                             !.calls[c] = [CmIdle EXCEPT !.pc = "clear"]]
             ELSE [cm EXCEPT !.ops = @ + 1, !.ret = CmCleared,
                             !.kept = [k \in CmKeys |-> Undefined],
                             !.old = CmHeld(<<>>, db)]
    /\ UNCHANGED <<now, db>>

\* dbCache.getStats and dbCache.vacuum return, or one of them throws and the
\* error is logged: no row is deleted in either case, and clearCache returns.
CmClearDbReturn(c, ok) ==
    /\ cm.calls[c].pc = "clear"
    /\ cm' = [cm EXCEPT !.calls[c] = CmIdle, !.ret = CmCleared,
                        !.old = CmHeld(mem, db)]
    /\ UNCHANGED <<now, mem, db>>

\* The memory part of cleanupExpiredEntries.
CmSweepMem(m) == SelectSeq(m, LAMBDA e : ~(e.ts < now - cfgMaxAge * 1000))

CmSweptKeys(m) == {k \in CmKeys : LRUhas(m, k) /\ ~LRUhas(CmSweepMem(m), k)}

\* The hourly timer fires: cleanupExpiredEntries up to its await or its end.
CmSweep ==
    /\ cm.sweep = "wait"
    /\ now >= CleanupIntervalMs
    /\ IF cfgMaxAge = 0
       THEN /\ mem' = mem
            /\ cm' = [cm EXCEPT !.sweep = "done", !.ret = CmNoRet]
       ELSE IF dbEnabled
       THEN /\ mem' = mem
            /\ cm' = [cm EXCEPT !.sweep = "db", !.ret = CmNoRet]
       ELSE /\ mem' = CmSweepMem(mem)
            /\ cm' = [cm EXCEPT !.sweep = "done", !.ret = CmNoRet,
                                !.kept = [k \in CmKeys |->
                                            IF k \in CmSweptKeys(mem) THEN Undefined ELSE @[k]]]
    /\ UNCHANGED <<now, db>>

\* dbCache.cleanup returns, and the memory tier is swept, or it throws, and
\* the cleanup is over.
CmSweepDbReturn(ok) ==
    /\ cm.sweep = "db"
    /\ IF ok
       THEN LET gone == {row.key : row \in {x \in db : x.ts < now - cfgMaxAge * 1000}}
            IN  /\ db' = {row \in db : ~(row.ts < now - cfgMaxAge * 1000)}
                /\ mem' = CmSweepMem(mem)
                /\ cm' = [cm EXCEPT !.sweep = "done", !.ret = CmNoRet,
                                    !.kept = [k \in CmKeys |->
                                                IF k \in CmSweptKeys(mem) \cup gone
                                                THEN Undefined ELSE @[k]]]
       ELSE /\ UNCHANGED <<mem, db>>
            /\ cm' = [cm EXCEPT !.sweep = "done", !.ret = CmNoRet]
    /\ UNCHANGED now

\* Time passes, unless the cleanup timer is due.
CmTick ==
    /\ ~(cm.sweep = "wait" /\ now >= CleanupIntervalMs)
    /\ \E t \in CmInstants : t > now /\ now' = t
    /\ cm' = [cm EXCEPT !.ret = CmNoRet]
    /\ UNCHANGED <<mem, db>>

CmOthers == <<cfgVars, keyVars, dup, inflight, wk, qrunning, qinterval, qtasks, hc, lru, bt, sq, cb>>

CmGetStep ==
    /\ \E c \in CmCallers, r \in pool : CmGet(c, r)
    /\ UNCHANGED CmOthers

CmDbGetStep ==
    /\ \E c \in CmCallers, ok \in BOOLEAN : CmDbGetReturn(c, ok)
    /\ UNCHANGED CmOthers

CmDbDelStep ==
    /\ \E c \in CmCallers, ok \in BOOLEAN : CmDbDelReturn(c, ok)
    /\ UNCHANGED CmOthers

CmPutStep ==
    /\ \E c \in CmCallers, r \in pool : CmPut(c, r, Result1)
    /\ UNCHANGED CmOthers

CmDbSetStep ==
    /\ \E c \in CmCallers, ok \in BOOLEAN : CmDbSetReturn(c, ok)
    /\ UNCHANGED CmOthers

CmClearStep ==
    /\ \E c \in CmCallers : CmClear(c)
    /\ UNCHANGED CmOthers

CmClearDbStep ==
    /\ \E c \in CmCallers, ok \in BOOLEAN : CmClearDbReturn(c, ok)
    /\ UNCHANGED CmOthers

CmSweepStep == CmSweep /\ UNCHANGED CmOthers

CmSweepDbStep ==
    /\ \E ok \in BOOLEAN : CmSweepDbReturn(ok)
    /\ UNCHANGED CmOthers

CmTickStep == CmTick /\ UNCHANGED CmOthers

NextCM ==
    \/ CmGetStep
    \/ CmDbGetStep
    \/ CmDbDelStep
    \/ CmPutStep
    \/ CmDbSetStep
    \/ CmClearStep
    \/ CmClearDbStep
    \/ CmSweepStep
    \/ CmSweepDbStep
    \/ CmTickStep

SpecCM == InitCM /\ [][NextCM]_vars


(***************************************************************************)
(* The retention specification: the CacheManager of SpecCM in a proxy that *)
(* is configured with cache.maxAge = 0.  cleanupExpiredEntries returns     *)
(* before its first await, so the return of dbCache.cleanup is no step.    *)
(***************************************************************************)
InitRetain ==
    /\ rev = "svc"
    /\ cfgMaxAge = 0
    /\ dbEnabled \in BOOLEAN
    /\ db \in (IF dbEnabled THEN InitDbs ELSE {{}})
    /\ pool = CmPool
    /\ ProxyFresh
    /\ KeyIdle
    /\ hc = [pc |-> "off"]
    /\ lru = [pc |-> "off"]
    /\ bt = [pc |-> "off"]
    /\ sq = [pc |-> "off"]
    /\ cb = [pc |-> "off"]
    /\ cm = CmStart

NextRetain ==
    \/ CmGetStep
    \/ CmDbGetStep
    \/ CmDbDelStep
    \/ CmPutStep
    \/ CmDbSetStep
    \/ CmClearStep
    \/ CmClearDbStep
    \/ CmSweepStep
    \/ CmTickStep

SpecRetain == InitRetain /\ [][NextRetain]_vars

(***************************************************************************)
(* The batch specification: one batch request (a JSON array) arrives at    *)
(* handleRPCRequestWithTarget.  processBatchRequests passes the array      *)
(* through the optimizer of its revision, starts processSingleRequest for  *)
(* every request of the result (one chunk, the concurrency limit being 10),*)
(* and collects the settled promises in the order of that result.          *)
(***************************************************************************)
BatchShapes ==
    { Req("eth", "eth_blockNumber", <<>>),
      Req("eth", "eth_getLogs", <<FilterA1>>),
      Req("eth", "eth_getLogs", <<FilterA2>>),
      Req("eth", "eth_call", <<CallAD, Str("0x2")>>),
      Req("eth", "eth_call", <<CallFrom, Str("0x2")>>) }

\* The batches: sub-request i carries id i.
BatchPool ==
    {<<WithId(a, Num("1"))>> : a \in BatchShapes}
        \cup {<<WithId(a, Num("1")), WithId(b, Num("2"))>> : a \in BatchShapes, b \in BatchShapes}

\* AdvancedSubgraphCacheStrategy.getCacheKey
strategyCacheKey(r) ==
    LET filter == IF Truthy(ParamAt(r.params, 0)) THEN ParamAt(r.params, 0) ELSE Obj(<<>>)
        callObject == filter
        orStr(v, dflt) == IF Truthy(v) THEN StringOf(v) ELSE dflt
    IN  CASE r.method = "eth_getLogs" ->
                "logs:" \o orStr(Get(filter, "fromBlock"), "0x0") \o ":"
                    \o orStr(Get(filter, "toBlock"), "latest") \o ":"
                    \o JSONstringify(IF Truthy(Get(filter, "topics"))
                                     THEN Get(filter, "topics") ELSE Arr(<<>>))
          [] r.method = "eth_call" ->
                "call:" \o orStr(Get(callObject, "to"), "0x0") \o ":"
                    \o orStr(Get(callObject, "data"), "0x") \o ":"
                    \o StringOf(ParamAt(r.params, 1))
          [] r.method = "eth_getTransactionReceipt" ->
                "receipt:" \o StringOf(ParamAt(r.params, 0))
          [] OTHER -> r.method \o ":" \o JSONstringify(Arr(r.params))

\* mergeLogRequests: the first request of every key, in order of appearance.
RECURSIVE mergeLogRequests(_)
mergeLogRequests(requests) ==
    IF requests = <<>> THEN <<>>
    ELSE LET init == SubSeq(requests, 1, Len(requests) - 1)
             last == requests[Len(requests)]
         IN  IF \E i \in 1..Len(init) : strategyCacheKey(init[i]) = strategyCacheKey(last)
             THEN mergeLogRequests(init)
             ELSE Append(mergeLogRequests(init), last)

\* optimizeForSubgraph: the merged eth_getLogs, then the eth_call, then the rest.
optimizeForSubgraph(requests) ==
    mergeLogRequests(SelectSeq(requests, LAMBDA r : r.method = "eth_getLogs"))
        \o SelectSeq(requests, LAMBDA r : r.method = "eth_call")
        \o SelectSeq(requests, LAMBDA r : r.method \notin {"eth_getLogs", "eth_call"})

\* SimpleRequestOptimizer.optimizeRequests
optimizeRequests(requests) == requests

optimizedRequests(requests) ==
    IF rev = "p17" THEN optimizeRequests(requests) ELSE optimizeForSubgraph(requests)

\* The element processBatchRequests pushes for a rejected promise.
BatchErrorBody(msg) ==
    Failure(Null, Obj(<< <<"code", Num("-32000")>>, <<"message", Str("Request failed")>>,
                         <<"data", msg>> >>))

InitBatch ==
    /\ rev \in {"svc", "p17"}
    /\ cfgMaxAge \in ConfigMaxAges
    /\ dbEnabled \in BOOLEAN
    /\ db \in (IF dbEnabled THEN InitDbs ELSE {{}})
    /\ pool = {}
    /\ ProxyFresh
    /\ KeyIdle
    /\ hc = [pc |-> "off"]
    /\ lru = [pc |-> "off"]
    /\ cm = [pc |-> "off"]
    /\ bt = [pc |-> "init", reqs |-> <<>>, opt |-> <<>>, out |-> <<>>]
    /\ sq = [pc |-> "off"]
    /\ cb = [pc |-> "off"]

\* The batch arrives and is optimized.
BatchStart ==
    /\ bt.pc = "init"
    /\ \E b \in BatchPool :
          bt' = [bt EXCEPT !.pc = "map", !.reqs = b, !.opt = optimizedRequests(b)]
    /\ UNCHANGED proxyVars

\* chunk.map: processSingleRequest is started for the next request of the
\* chunk; nothing else runs before the last one was started.
BatchMap ==
    /\ bt.pc = "map"
    /\ \E w \in Workers :
          /\ w <= Len(bt.opt)
          /\ ArriveAs(w, bt.opt[w])
          /\ bt' = [bt EXCEPT !.pc = IF w = Len(bt.opt) THEN "running" ELSE "map"]

\* Promise.allSettled is over: the responses, in the order of the chunk.
BatchRespond ==
    /\ bt.pc = "running"
    /\ \A w \in 1..Len(bt.opt) : wk[w].pc = "done"
    /\ bt' = [bt EXCEPT
                !.pc = "done",
                !.out = [w \in 1..Len(bt.opt) |->
                            IF wk[w].via \in {"thrown", "timeout"}
                            THEN BatchErrorBody(Get(Get(wk[w].resp, "error"), "data"))
                            ELSE wk[w].resp]]
    /\ UNCHANGED proxyVars

BatchOthers == <<cfgVars, keyVars, hc, lru, cm, sq, cb>>

BatchRunning == bt.pc = "running"

BatchStartStep == BatchStart /\ UNCHANGED BatchOthers
BatchMapStep == BatchMap /\ UNCHANGED BatchOthers
BatchRespondStep == BatchRespond /\ UNCHANGED BatchOthers
BatchDbGetStep == BatchRunning /\ DbGetStep
BatchDbDelStep == BatchRunning /\ DbDelStep
BatchWakeStep == BatchRunning /\ WakeStep
BatchUpstreamStep == BatchRunning /\ UpstreamStep
BatchDbSetStep == BatchRunning /\ DbSetStep
BatchQueueTimeoutStep == BatchRunning /\ QueueTimeoutStep
BatchTickStep == BatchRunning /\ TickStep

NextBatch ==
    \/ BatchStartStep
    \/ BatchMapStep
    \/ BatchRespondStep
    \/ BatchDbGetStep
    \/ BatchDbDelStep
    \/ BatchWakeStep
    \/ BatchUpstreamStep
    \/ BatchDbSetStep
    \/ BatchQueueTimeoutStep
    \/ BatchTickStep

SpecBatch == InitBatch /\ [][NextBatch]_vars


(***************************************************************************)
(* The breaker specification: one CircuitBreaker (src/unnamed/part_013),   *)
(* configured as RPCProxy configures the breaker of a network, and the     *)
(* upstream calls that go through execute, two of them at a time.          *)
(***************************************************************************)
FailureThreshold == 5
RecoveryTimeoutMs == 60000
CbMaxOps == 10
CbCalls == {1, 2}

\* The clock readings: the start, the end of the recovery timeout counted from
\* the start, the millisecond after it, and an instant more than a recovery
\* timeout later.
CbInstants == {0, RecoveryTimeoutMs, RecoveryTimeoutMs + 1, 2 * RecoveryTimeoutMs + 2}

\* last is what the latest step did ("started", "blocked", "success",
\* "failure"); streak counts the successes in HALF_OPEN since the breaker
\* became HALF_OPEN or a call failed.
CbStart ==
    [pc |-> "on", state |-> "CLOSED", failures |-> 0, lastFailureTime |-> 0,
     successCount |-> 0, calls |-> [c \in CbCalls |-> "idle"], ops |-> 0,
     last |-> "", streak |-> 0]

InitBreaker ==
    /\ ClientIdleRest
    /\ hc = [pc |-> "off"]
    /\ lru = [pc |-> "off"]
    /\ cm = [pc |-> "off"]
    /\ bt = [pc |-> "off"]
    /\ sq = [pc |-> "off"]
    /\ cb = CbStart

\* CircuitBreaker.onSuccess
onSuccess(b) ==
    LET b1 == [b EXCEPT !.failures = 0, !.last = "success"]
    IN  IF b1.state = "HALF_OPEN"
        THEN LET n == b1.successCount + 1
             IN  [b1 EXCEPT !.successCount = n, !.streak = @ + 1,
                            !.state = IF n >= 3 THEN "CLOSED" ELSE @]
        ELSE IF b1.state = "OPEN"
        THEN [b1 EXCEPT !.state = "CLOSED"]
        ELSE b1

\* CircuitBreaker.onFailure
onFailure(b) ==
    LET n == b.failures + 1
    IN  [b EXCEPT !.failures = n, !.lastFailureTime = now, !.last = "failure",
                  !.streak = 0,
                  !.state = IF n >= FailureThreshold THEN "OPEN" ELSE @]

\* execute up to `await fn()`, or to the throw of a blocked call.
CbExecute(c) ==
    /\ cb.calls[c] = "idle"
    /\ cb.ops < CbMaxOps
    /\ cb' = IF cb.state = "OPEN"
             THEN IF now - cb.lastFailureTime > RecoveryTimeoutMs
                  THEN [cb EXCEPT !.state = "HALF_OPEN", !.successCount = 0, !.streak = 0,
                                  !.calls[c] = "running", !.ops = @ + 1, !.last = "started"]
                  ELSE [cb EXCEPT !.ops = @ + 1, !.last = "blocked"]
             ELSE [cb EXCEPT !.calls[c] = "running", !.ops = @ + 1, !.last = "started"]
    /\ UNCHANGED now

\* fn() settles: the upstream call returned (ok) or threw.
CbFnReturns(c, ok) ==
    /\ cb.calls[c] = "running"
    /\ LET b == [cb EXCEPT !.calls[c] = "idle"]
       IN  cb' = IF ok THEN onSuccess(b) ELSE onFailure(b)
    /\ UNCHANGED now

CbTick ==
    /\ \E t \in CbInstants : t > now /\ now' = t
    /\ cb' = [cb EXCEPT !.last = ""]

CbOthers ==
    <<cfgVars, keyVars, mem, db, dup, inflight, wk, qrunning, qinterval, qtasks,
      hc, lru, cm, bt, sq>>

CbExecuteStep ==
    /\ \E c \in CbCalls : CbExecute(c)
    /\ UNCHANGED CbOthers

CbFnReturnsStep ==
    /\ \E c \in CbCalls, ok \in BOOLEAN : CbFnReturns(c, ok)
    /\ UNCHANGED CbOthers

CbTickStep == CbTick /\ UNCHANGED CbOthers

NextBreaker ==
    \/ CbExecuteStep
    \/ CbFnReturnsStep
    \/ CbTickStep

SpecBreaker == InitBreaker /\ [][NextBreaker]_vars

(***************************************************************************)
(* The queue specification: one SimpleQueue (src/unnamed/part_015, both    *)
(* revisions) and the tasks handed to add.  The queue is created with a    *)
(* small concurrency and interval cap so that both limits are reached by a *)
(* few tasks; the timeout is a whole number of intervals, as in RPCProxy   *)
(* (30000 ms and 1000 ms).  Every task has priority 0, as addToQueue is    *)
(* called by RPCProxy, so the sort of add keeps the order of arrival.      *)
(***************************************************************************)
SqMaxTasks == 3
\* QueueConfig.interval of RPCProxy; the timeout is 30 intervals.
QueueIntervalMs == 1000
SqTimeoutTicks == QueueTimeoutMs \div QueueIntervalMs
SqTasks == 1..SqMaxTasks
SqRevs == {"q1", "q2"}
SqConfigs ==
    {[concurrency |-> 1, intervalCap |-> 2], [concurrency |-> 2, intervalCap |-> 2]}

\* st[t] is where task t stands: "new" (not yet added), "waiting" (in
\* this.tasks), "racing" (task.fn() runs and its promise is pending),
\* "detached" (the timeout rejected the promise, task.fn() still runs),
\* "resolved", "failed", "timedout" (rejected by the timeout, task.fn() is
\* over) or "cleared" (rejected by clear).  age[t] counts the intervals since
\* a racing task was started.
SqStart(r, c) ==
    [pc |-> "on", qrev |-> r, concurrency |-> c.concurrency,
     intervalCap |-> c.intervalCap, tasks |-> <<>>, running |-> 0,
     paused |-> FALSE, intervalCount |-> 0,
     st |-> [t \in SqTasks |-> "new"], age |-> [t \in SqTasks |-> 0]]

InitQueue ==
    /\ ClientIdleRest
    /\ hc = [pc |-> "off"]
    /\ lru = [pc |-> "off"]
    /\ cm = [pc |-> "off"]
    /\ bt = [pc |-> "off"]
    /\ cb = [pc |-> "off"]
    /\ \E r \in SqRevs, c \in SqConfigs : sq = SqStart(r, c)

\* The tasks whose fn is executing.
SqExecuting(q) == {t \in SqTasks : q.st[t] \in {"racing", "detached"}}

\* SimpleQueue.processNext up to its await (first revision), SimpleQueue.process
\* up to its await (second revision).
processNext(q) ==
    IF \/ q.qrev = "q1" /\ q.paused
       \/ q.running >= q.concurrency
       \/ q.qrev = "q1" /\ q.intervalCount >= q.intervalCap
       \/ q.tasks = <<>>
    THEN q
    ELSE LET h == Head(q.tasks)
         IN  [q EXCEPT !.tasks = Tail(@), !.running = @ + 1,
                       !.intervalCount = IF q.qrev = "q1" THEN @ + 1 ELSE @,
                       !.st[h] = "racing", !.age[h] = 0]

\* SimpleQueue.add: push, (sort,) processNext.
SqAdd(t) ==
    /\ sq.st[t] = "new"
    /\ sq' = processNext([sq EXCEPT !.tasks = Append(@, t), !.st[t] = "waiting"])

\* task.fn() settles.  While the race is open the promise of the task settles
\* with it and the finally runs: running--, processNext.  After the timeout
\* nothing is left to do.
SqFnEnds(t, ok) ==
    \/ /\ sq.st[t] = "racing"
       /\ sq' = processNext([sq EXCEPT !.st[t] = IF ok THEN "resolved" ELSE "failed",
                                       !.age[t] = 0, !.running = @ - 1])
    \/ /\ sq.st[t] = "detached"
       /\ sq' = [sq EXCEPT !.st[t] = "timedout"]

\* The timer of Promise.race fires first: the promise rejects with 'Task
\* timeout', the finally runs, task.fn() is not cancelled.
SqTimeout(t) ==
    /\ sq.qrev = "q1"
    /\ sq.st[t] = "racing"
    /\ sq.age[t] >= SqTimeoutTicks
    /\ sq' = processNext([sq EXCEPT !.st[t] = "detached", !.age[t] = 0, !.running = @ - 1])

\* One interval passes: the setInterval callback sets intervalCount = 0.  A
\* race whose timer is due is settled before more time passes.
SqInterval ==
    /\ sq.qrev = "q1"
    /\ \A t \in SqTasks : sq.st[t] = "racing" => sq.age[t] < SqTimeoutTicks
    /\ sq' = [sq EXCEPT !.intervalCount = 0,
                        !.age = [t \in SqTasks |->
                                    IF sq.st[t] = "racing" THEN sq.age[t] + 1 ELSE 0]]

\* SimpleQueue.pause
SqPause ==
    /\ sq.qrev = "q1"
    /\ sq' = [sq EXCEPT !.paused = TRUE]

\* SimpleQueue.start
SqResume ==
    /\ sq.qrev = "q1"
    /\ sq' = processNext([sq EXCEPT !.paused = FALSE])

\* SimpleQueue.clear
SqClear ==
    /\ sq.qrev = "q1"
    /\ sq' = [sq EXCEPT !.tasks = <<>>, !.running = 0,
                        !.st = [t \in SqTasks |->
                                   IF sq.st[t] = "waiting" THEN "cleared" ELSE sq.st[t]]]

SqOthers ==
    <<cfgVars, keyVars, proxyVars, hc, lru, cm, bt, cb>>

SqAddStep ==
    /\ sq.pc = "on"
    /\ \E t \in SqTasks : SqAdd(t)
    /\ UNCHANGED SqOthers

SqFnEndsStep ==
    /\ sq.pc = "on"
    /\ \E t \in SqTasks, ok \in BOOLEAN : SqFnEnds(t, ok)
    /\ UNCHANGED SqOthers

SqTimeoutStep ==
    /\ sq.pc = "on"
    /\ \E t \in SqTasks : SqTimeout(t)
    /\ UNCHANGED SqOthers

SqIntervalStep == sq.pc = "on" /\ SqInterval /\ UNCHANGED SqOthers

SqPauseStep == sq.pc = "on" /\ SqPause /\ UNCHANGED SqOthers

SqResumeStep == sq.pc = "on" /\ SqResume /\ UNCHANGED SqOthers

SqClearStep == sq.pc = "on" /\ SqClear /\ UNCHANGED SqOthers

NextQueue ==
    \/ SqAddStep
    \/ SqFnEndsStep
    \/ SqTimeoutStep
    \/ SqIntervalStep
    \/ SqPauseStep
    \/ SqResumeStep
    \/ SqClearStep

SpecQueue == InitQueue /\ [][NextQueue]_vars

\* The queue left alone by pause, start and clear, with the clock running and
\* every task.fn() settling in the end.
NextQueueLive ==
    \/ SqAddStep
    \/ SqFnEndsStep
    \/ SqTimeoutStep
    \/ SqIntervalStep

SpecQueueLive ==
    /\ InitQueue
    /\ [][NextQueueLive]_vars
    /\ WF_vars(SqFnEndsStep)
    /\ WF_vars(SqTimeoutStep)
    /\ WF_vars(SqIntervalStep)

(***************************************************************************)
(* Claims on the cache key and the cacheability policy (SpecKey).          *)
(***************************************************************************)
\* Structural equality of JSON values: objects as maps from key to value,
\* whatever the order of their members; arrays member by member.
RECURSIVE StructEq(_, _)
StructEq(a, b) ==
    /\ a.t = b.t
    /\ a.s = b.s
    /\ Len(a.f) = Len(b.f)
    /\ IF a.t = "obj"
       THEN \A i \in 1..Len(a.f) : \E j \in 1..Len(b.f) :
                a.f[i][1] = b.f[j][1] /\ StructEq(a.f[i][2], b.f[j][2])
       ELSE \A i \in 1..Len(a.f) : StructEq(a.f[i][2], b.f[i][2])

SameRequest(r1, r2) ==
    /\ r1.network = r2.network
    /\ r1.method = r2.method
    /\ StructEq(Arr(r1.params), Arr(r2.params))

\* C1: two requests that differ in network, method or params (in any field of
\* any param) have different cache keys.
C1_DistinctRequestsDistinctKeys ==
    kpc = "done" /\ ~SameRequest(kreq[1], kreq[2]) => kkey[1] # kkey[2]

\* C9: two requests with the same network, the same method and structurally
\* equal params (object keys in any order) have the same cache key, whatever
\* their ids.
C9_EqualRequestsEqualKeys ==
    kpc = "done" /\ SameRequest(kreq[1], kreq[2]) => kkey[1] = kkey[2]

IsHexTag(v) == v.t = "str" /\ startsWith0x(v.s)

\* Historical-fixed: a hex block tag or a blockHash in the position the method
\* defines for it.
HistoricalFixed(r) ==
    CASE r.method = "eth_call" ->
            IsHexTag(ParamAt(r.params, 1)) \/ hasOwnProperty(ParamAt(r.params, 0), "blockHash")
      [] r.method = "eth_getBlockByNumber" -> IsHexTag(ParamAt(r.params, 0))
      [] r.method = "eth_getLogs" ->
            \/ hasOwnProperty(ParamAt(r.params, 0), "blockHash")
            \/ IsHexTag(Get(ParamAt(r.params, 0), "toBlock"))
      [] r.method = "eth_getStorageAt" -> IsHexTag(ParamAt(r.params, 2))
      [] r.method = "eth_getBalance" -> IsHexTag(ParamAt(r.params, 1))
      [] OTHER -> FALSE

\* C6: for the five historical-conditional methods the policy answers
\* maxAge = infinity exactly for the historical-fixed requests.
C6_InfiniteIffHistoricalFixed ==
    kpc = "done" /\ kreq[1].method \in HISTORICAL_CACHEABLE
        => (kpol.infinite <=> HistoricalFixed(kreq[1]))


(***************************************************************************)
(* Claims on coalescing and dispatch (Spec).                               *)
(***************************************************************************)
Joined(w) == wk[w].pc # "idle" /\ wk[w].lead # w

\* C2: a request shares the in-flight attempt of another only if both have the
\* same network, the same method and structurally equal params.
C2_JoinOnlyEqualRequests ==
    \A w \in Workers : Joined(w) => SameRequest(wk[w].req, wk[wk[w].lead].req)

\* The top-level fields of a response other than id, as a set.
FieldsButId(resp) == {resp.f[i] : i \in {j \in 1..Len(resp.f) : resp.f[j][1] # "id"}}

\* C3: a request that joined an in-flight attempt is answered with its own id,
\* and apart from id its response equals the leader's.
C3_JoinerAnsweredWithOwnId ==
    \A w \in Workers :
        Joined(w) /\ wk[w].pc = "done"
            => /\ Get(wk[w].resp, "id") = wk[w].req.id
               /\ FieldsButId(wk[w].resp) = FieldsButId(wk[wk[w].lead].resp)

\* C4: at every instant at most one upstream attempt is in flight for a
\* fingerprint.
C4_OneAttemptPerFingerprint ==
    \A v, w \in Workers :
        v # w /\ wk[v].tpc = "upstream" /\ wk[w].tpc = "upstream"
            => cacheKeyOf(wk[v].req) # cacheKeyOf(wk[w].req)

FromCache(w) == wk[w].pc = "done" /\ wk[w].via \in {"mem", "db"}

Keys(resp) == {resp.f[i][1] : i \in 1..Len(resp.f)}

IsGoodResult(resp) ==
    /\ resp.t = "obj"
    /\ Get(resp, "result").t \notin {"undef", "null"}
    /\ ~hasOwnProperty(resp, "error")

\* C8: when eth_getBlockReceipts for a hex block is sent again after it was
\* answered with a result, the second answer comes from the cache, has the
\* top-level keys and the result of the first, and carries the second id.
C8_SecondReceiptsFromCache ==
    \A w \in Workers :
        /\ wk[w].pc = "done"
        /\ wk[w].req.method = "eth_getBlockReceipts"
        /\ IsGoodResult(wk[w].prior)
        => /\ FromCache(w)
           /\ Keys(wk[w].resp) = Keys(wk[w].prior)
           /\ Get(wk[w].resp, "result") = Get(wk[w].prior, "result")
           /\ Get(wk[w].resp, "id") = wk[w].req.id

\* C10: an upstream response with a null or absent result, or with an error,
\* is not written to the cache, and it is what the caller receives.
C10_NoWriteOfNullOrError ==
    \A w \in Workers :
        wk[w].rpcData.t = "obj" /\ ~IsGoodResult(wk[w].rpcData)
            => /\ ~wk[w].wrote
               /\ (wk[w].pc = "done" /\ wk[w].via = "upstream"
                      => wk[w].resp = wk[w].rpcData)

(***************************************************************************)
(* Claims on the cache lookup (SpecCache).                                 *)
(***************************************************************************)
\* The request of slot w ran a cache lookup that found a servable entry.
Looked(w) == wk[w].lead = w /\ wk[w].via \in {"mem", "db"}

\* C5: no lookup, in the memory or the persistent tier, serves an entry older
\* than the finite maxAge of the request.
C5_NoStaleHit ==
    \A w \in Workers :
        Looked(w) /\ ~policyOf(wk[w].req).infinite
            => wk[w].hit.age <= policyOf(wk[w].req).maxAgeMs

\* An entry is served at the very end of its life, from each tier.
C5_Witness ==
    \E v, w \in Workers :
        /\ Looked(v) /\ wk[v].via = "mem"
        /\ Looked(w) /\ wk[w].via = "db"
        /\ \A u \in {v, w} :
              /\ ~policyOf(wk[u].req).infinite
              /\ wk[u].hit.age = policyOf(wk[u].req).maxAgeMs
              /\ wk[u].hit.age > 0

IsSuccess(data) == Get(data, "result").t # "undef" /\ Get(data, "error").t = "undef"

HistoricalSubstrings ==
    {"missing trie node", "header not found", "unknown block", "state not available",
     "historical state", "is not available"}

\* A JSON-RPC error with a historical-data signature.
HistoricalError(data) ==
    /\ Get(data, "error").t = "obj"
    /\ \/ Get(Get(data, "error"), "code") = Num("-32801")
       \/ /\ Get(Get(data, "error"), "message").t = "str"
          /\ \E sub \in HistoricalSubstrings :
                 includes(toLowerCase(Get(Get(data, "error"), "message").s), sub)

\* C11: when the primary answered with a JSON-RPC error that carries a
\* historical-data signature and a fallback is configured, the fallback is
\* asked, and when it answers with a success the client receives that success,
\* whatever the method and the params of the request.
C11_HistoricalErrorServedByFallback ==
    (hc.pc = "done" /\ hc.hasFallback /\ HistoricalError(hc.primaryData))
        => /\ hc.nFallback >= 1
           /\ IsSuccess(hc.fbData) => hc.body = hc.fbData

\* A JSON-RPC success whose result is null, absent or the empty string.
EmptySuccess(data) ==
    /\ data.t = "obj"
    /\ Get(data, "error").t = "undef"
    /\ \/ Get(data, "result").t \in {"null", "undef"}
       \/ Get(data, "result") = Str("")

ValidResult(data) == IsSuccess(data) /\ ~EmptySuccess(data)

\* C12: for a method of the critical set, when the primary answered with a
\* success whose result is null, absent or an empty string and a fallback is
\* configured, the fallback is asked before the dispatch responds, and a valid
\* result of the fallback is what the client receives (stated for HTTPClient).
C12_EmptyResultServedByFallback ==
    (/\ hc.pc = "done"
     /\ hc.crev \in {"h1", "h2"}
     /\ hc.hasFallback
     /\ hc.req.method \in subgraphCriticalMethods
     /\ EmptySuccess(hc.primaryData))
        => /\ hc.nFallback >= 1
           /\ ValidResult(hc.fbData) => hc.body = hc.fbData

\* The fallback was asked and failed on all its attempts.
FallbackExhausted == hc.nFallback >= 1 /\ hc.fbData = Undefined

\* C13: when the fallback failed on all its attempts after the primary answered
\* with a fallback-worthy response, the dispatch returns that primary response
\* and the primary was asked once only; when no exchange with the primary got
\* an answer and the fallback failed on all its attempts, the error surfaced
\* is the last error of the fallback (stated for HTTPClient).
C13_AfterFallbackExhausted ==
    (hc.pc = "done" /\ hc.crev \in {"h1", "h2"} /\ FallbackExhausted)
        => /\ hc.primaryData # Undefined
                => hc.nPrimary = 1 /\ hc.body = hc.primaryData
           /\ ~hc.anyAnswer
                => /\ hc.out.kind = "thrown"
                   /\ hc.out.err.url = "fallback"
                   /\ hc.out.err.kind = hc.fbErr.kind

\* Every exchange of the dispatch with an upstream failed.
AllExchangesFailed == hc.pc = "done" /\ ~hc.anyAnswer /\ hc.nPrimary + hc.nFallback >= 1

\* C14: when the primary and the fallback both failed, or the primary failed
\* and no fallback is configured, the client receives a JSON-RPC error object
\* whose code is -32000.
C14_UnavailableIsMinus32000 ==
    AllExchangesFailed
        => /\ Get(hc.body, "error").t = "obj"
           /\ Get(Get(hc.body, "error"), "code") = Num("-32000")
           /\ Get(hc.body, "result").t = "undef"

C14_Witness ==
    /\ AllExchangesFailed
    /\ hc.out.kind = "thrown"
    /\ hc.nPrimary >= 1
    /\ hc.nFallback >= 1

\* C15: on a network with a primary and a fallback, a dispatch sends at most
\* one HTTP request to the primary, and no backoff delay is slept before the
\* fallback is first asked.
C15_PrimaryAskedOnce ==
    hc.hasFallback /\ hc.pc # "off"
        => hc.nPrimary <= 1 /\ ~hc.sleptBeforeFallback

RECURSIVE Pow2(_)
Pow2(n) == IF n = 0 THEN 1 ELSE 2 * Pow2(n - 1)

\* The backoff sleeps of the exchanges with the fallback, in order.
FallbackDelays == SelectSeq(hc.delays, LAMBDA d : targetOf(d[1]) = "fallback")

\* C16: in one dispatch the fallback is asked at most retries + 1 times, and
\* the sleep before its k-th retry is the initial backoff doubled k - 1 times,
\* lengthened by at most 10 %.
C16_FallbackAttemptsBounded ==
    hc.pc # "off"
        => /\ hc.nFallback <= hc.retries + 1
           /\ \A k \in 1..Len(FallbackDelays) :
                  LET base == FallbackDelays[k][2]
                      actual == FallbackDelays[k][3]
                  IN  /\ base = InitialTimeoutMs * Pow2(k - 1)
                      /\ actual >= base
                      /\ 10 * (actual - base) <= base

(***************************************************************************)
(* Claims on write-through and the persistent tier (Spec, SpecStore).      *)
(***************************************************************************)
\* The in-flight entry of leader w was removed while its task was running.
ReleasedEarly(w) == wk[w].lead = w /\ wk[w].timedOut

\* C17: the cache write of an upstream attempt is over before the in-flight
\* entry of its fingerprint is removed: no attempt whose in-flight entry was
\* released while it was running goes on to write the cache.
C17_NoWriteAfterRelease ==
    \A w \in Workers :
        (wk[w].tpc = "end" /\ wk[w].wrote) => ~ReleasedEarly(w)

\* Slots v and w hold the same request, ids apart.
Identical(v, w) ==
    /\ wk[v].req.network = wk[w].req.network
    /\ wk[v].req.method = wk[w].req.method
    /\ wk[v].req.params = wk[w].req.params

\* Slot w was a non-coalesced miss with a cacheable, valid response, and the
\* persistent tier holds the row its write-through stored.
StoredMiss(w) ==
    /\ wk[w].pc = "done" /\ wk[w].lead = w /\ wk[w].via = "upstream" /\ wk[w].wrote
    /\ IsGoodResult(wk[w].resp)
    /\ DbHas(db, cacheKeyOf(wk[w].req))
    /\ DbGet(db, cacheKeyOf(wk[w].req)).val = JSONstringify(Get(wk[w].resp, "result"))

RowOf(w) ==
    [key |-> wk[w].entry.key, val |-> JSONstringify(wk[w].entry.val), ts |-> wk[w].entry.ts]

\* C19: a persistent-tier operation that throws never makes the request fail.
\* A throwing get or delete during the lookup leaves the request on its way to
\* upstream; a throwing put during the store still writes the memory tier and
\* the request is answered with the upstream response.
C19_StoreFailureTolerated ==
    [][\A w \in Workers :
          /\ (wk[w].tpc \in {"dbget", "dbdel"} /\ ~wk[w].ioErr /\ wk'[w].ioErr)
                => /\ wk'[w].pc = "await"
                   /\ wk'[w].tpc \in {"sleep", "queued", "upstream"}
          /\ (wk[w].tpc = "dbset" /\ wk'[w].tpc = "end" /\ RowOf(w) \notin db')
                => /\ LRUhas(mem', wk[w].entry.key)
                   /\ LRUpeek(mem', wk[w].entry.key).val = wk[w].entry.val
                   /\ wk[w].pc = "await"
                         => /\ wk'[w].pc = "done"
                            /\ wk'[w].via = "upstream"
                            /\ wk'[w].resp = wk[w].rpcData
      ]_vars

\* A request answered by upstream although the put of its write-through
\* threw: the memory tier holds the entry written at this instant, the
\* persistent tier has no row for it.
C19_Witness ==
    \E w \in Workers :
        /\ wk[w].pc = "done" /\ wk[w].lead = w /\ wk[w].via = "upstream" /\ wk[w].wrote
        /\ dbEnabled
        /\ IsGoodResult(wk[w].resp)
        /\ LRUhas(mem, cacheKeyOf(wk[w].req))
        /\ LRUpeek(mem, cacheKeyOf(wk[w].req)).ts = now
        /\ ~DbHas(db, cacheKeyOf(wk[w].req))

(***************************************************************************)
(* Claim on the memory tier (SpecLRU).                                     *)
(***************************************************************************)
\* C20: after every operation the memory tier holds at most cache.maxSize
\* entries, whatever value cache.maxSize is configured with.
C20_SizeWithinMaxSize ==
    lru.pc = "on" => Len(lru.cache) <= lru.maxSize

(***************************************************************************)
(* Claims on recency and eviction in the memory tier (SpecLRU).            *)
(***************************************************************************)
LruKeySet(c) == {c[i].key : i \in 1..Len(c)}

\* The key of cache c whose last access is the oldest.
LruOldest(c, last) ==
    CHOOSE k \in LruKeySet(c) : \A j \in LruKeySet(c) : last[k] <= last[j]

\* The key the step accessed, if it accessed one.
LruTouched == {k \in LruKeys : lru'.last[k] = lru'.clock}

\* C21: when set inserts a new key into a full cache, the key evicted is the
\* one whose last access (a get that returned a value, or a set) is the
\* oldest; a get on a present key and a set on an existing key make that key
\* the most recently used, and neither evicts anything.
C21_EvictsLeastRecentlyUsed ==
    [][IF lru.pc = "on" /\ lru'.clock = lru.clock + 1
       THEN \A k \in LruTouched :
              /\ lru'.cache # <<>>
              /\ lru'.cache[Len(lru'.cache)].key = k
              /\ IF LRUhas(lru.cache, k)
                 THEN LruKeySet(lru'.cache) = LruKeySet(lru.cache)
                 ELSE IF Len(lru.cache) >= lru.maxSize /\ lru.cache # <<>>
                 THEN LruKeySet(lru'.cache) =
                        (LruKeySet(lru.cache) \ {LruOldest(lru.cache, lru.last)}) \cup {k}
                 ELSE LruKeySet(lru'.cache) = LruKeySet(lru.cache) \cup {k}
       ELSE TRUE
      ]_vars

\* A set has just inserted a new key into a full cache and evicted a key,
\* after the cache was filled and one more access was made.
C21_Witness ==
    /\ lru.pc = "on"
    /\ lru.maxSize = LruMaxSize
    /\ Len(lru.cache) = lru.maxSize
    /\ lru.evicted # {}
    /\ lru.clock >= lru.maxSize + 2
    /\ lru.last[lru.cache[Len(lru.cache)].key] = lru.clock

(***************************************************************************)
(* Claims on the cache manager (SpecCM).                                   *)
(***************************************************************************)
\* The keys of the cache-forever requests.
CmForeverKeys == {cacheKeyOf(r) : r \in {q \in CmPool : policyOf(q).infinite}}

\* The step put a key into the memory tier that was not there.
CmInserted == \E j \in CmKeys : ~LRUhas(mem, j) /\ LRUhas(mem', j)

\* The step is clearCache emptying the memory tier.
CmClearing ==
    \/ cm'.ret = CmCleared
    \/ \E c \in CmCallers : cm.calls[c].pc = "idle" /\ cm'.calls[c].pc = "clear"

\* C22: an entry stored for a cache-forever request is never removed and
\* never refused because of its age: it leaves the memory tier only when the
\* insertion of another key evicts it from the full tier or when the cache is
\* cleared, it never leaves the persistent tier, and a lookup that finds it in
\* the memory tier serves it.
C22_ForeverEntryIgnoresMaxAge ==
    [][IF cm.pc = "on"
       THEN \A k \in CmForeverKeys :
              /\ (LRUhas(mem, k) /\ ~LRUhas(mem', k))
                    => \/ Len(mem) >= CacheMaxSize /\ CmInserted
                       \/ CmClearing
              /\ DbHas(db, k) => DbHas(db', k)
              /\ (LRUhas(mem, k) /\ cm'.ret.key = k) => cm'.ret.tier = "mem"
       ELSE TRUE
      ]_vars

(***************************************************************************)
(* Claims on the time to live (SpecTtl).                                   *)
(***************************************************************************)
BlockNumberKey == cacheKeyOf(Req("eth", "eth_blockNumber", <<>>))

\* The memory tier holds a block number that was cached age ms ago.
CachedBlockNumber(age) ==
    /\ LRUhas(mem, BlockNumberKey)
    /\ LRUpeek(mem, BlockNumberKey).ts = now - age
    /\ LRUpeek(mem, BlockNumberKey).val.t \notin {"undef", "null"}

\* Slot v takes a request in this step.
Arrives(v) == wk[v].pc = "idle" /\ wk'[v].pc # "idle"

C24_BatchResponseMatchesRequests ==
    bt.pc = "done"
        => /\ Len(bt.out) = Len(bt.reqs)
           /\ \A i \in 1..Len(bt.reqs) :
                 i <= Len(bt.out) => Get(bt.out[i], "id") = bt.reqs[i].id

(***************************************************************************)
(* Claims on the hit path and the duplicate delay (SpecStore).             *)
(***************************************************************************)
\* The lookup of leader v ends in this step with a hit.
HitsNow(v) == wk[v].via = "" /\ wk'[v].via \in {"mem", "db"} /\ wk'[v].lead = v

\* C25: a cache hit sends no request to any upstream and leaves the entry's
\* insertedAt unchanged in both tiers, including when the hit promotes a
\* persistent entry into the memory tier.
C25_HitLeavesInsertedAt ==
    [][\A v \in Workers :
          HitsNow(v)
            => LET k == cacheKeyOf(wk'[v].req)
               IN  /\ wk[v].tpc \in {"none", "dbget"}
                   /\ wk'[v].tpc = "end"
                   /\ wk'[v].rpcData = Undefined
                   /\ \A u \in Workers : wk'[u].tpc = "upstream" => wk[u].tpc = "upstream"
                   /\ qrunning' = qrunning /\ qtasks' = qtasks
                   /\ db' = db
                   /\ LRUhas(mem', k)
                   /\ wk'[v].via = "mem" => LRUpeek(mem', k).ts = LRUpeek(mem, k).ts
                   /\ wk'[v].via = "db" => LRUpeek(mem', k).ts = DbGet(db, k).ts
      ]_vars

\* One request was served from the persistent tier, which promoted a row
\* written a second before, and an identical one then from the memory tier.
C25_Witness ==
    \E u, v \in Workers :
        /\ Looked(u) /\ wk[u].via = "db" /\ wk[u].hit.age > 0
        /\ Looked(v) /\ wk[v].via = "mem"
        /\ Identical(u, v)
        /\ LRUpeek(mem, cacheKeyOf(wk[u].req)).ts = DbGet(db, cacheKeyOf(wk[u].req)).ts
        /\ LRUpeek(mem, cacheKeyOf(wk[u].req)).ts < now

StartsSleep(v) == wk[v].tpc # "sleep" /\ wk'[v].tpc = "sleep"

\* handleDuplicateRequest returns to the request of slot v in this step: the
\* request goes on to the network queue.
ThrottleReturns(v) ==
    /\ wk[v].tpc \in {"none", "dbget", "dbdel", "sleep"}
    /\ wk'[v].tpc \in {"queued", "upstream"}

RecordedWithin(k, ms) == \E e \in dup : e.key = k /\ now - e.ts < ms

\* C27: handleDuplicateRequest delays its caller only if the same key was
\* recorded less than 100 ms before the call; the delay it asks for is then at
\* least 50 ms and at most 150 ms, and the caller is not woken before it is
\* over; in every case the key's recorded timestamp afterwards is the time at
\* which the call returns.
C27_DuplicateDelay ==
    [][\A v \in Workers :
          /\ StartsSleep(v)
               => /\ RecordedWithin(cacheKeyOf(wk'[v].req), 100)
                  /\ wk'[v].due - now >= 50
                  /\ wk'[v].due - now <= 150
                  /\ dup' = dup
          /\ ThrottleReturns(v)
               => LET k == cacheKeyOf(wk'[v].req)
                  IN  /\ \A e \in dup' : e.key = k => e.ts = now'
                      /\ \E e \in dup' : e.key = k
                      /\ \A e \in dup' : e.key # k => e \in dup
                      /\ wk[v].tpc = "sleep" => now >= wk[v].due
                      /\ wk[v].tpc # "sleep" => ~RecordedWithin(k, 100)
      ]_vars

\* A request sleeps the longest delay, 149 ms after the key was recorded, and
\* its timer has run out.
C27_Witness ==
    \E v \in Workers :
        /\ wk[v].tpc = "sleep"
        /\ now >= wk[v].due
        /\ \E e \in dup : e.key = cacheKeyOf(wk[v].req) /\ wk[v].due - e.ts = 149

\* C28: after clearCache (POST /cache/clear) has returned, no entry that was
\* written before the clear is served by a later lookup, from the memory tier
\* or from the persistent tier.
C28_ClearedEntryNotServed ==
    IF cm.pc = "on"
    THEN cm.ret.tier \in {"mem", "db"} => cm.ret.key \notin cm.old
    ELSE TRUE

C29_MemoryEntryNeverOlder ==
    [][\A i \in 1..Len(mem) : \A j \in 1..Len(mem') :
          mem[i].key = mem'[j].key => mem'[j].ts >= mem[i].ts
      ]_vars

(***************************************************************************)
(* Claims on the in-flight map, the queues and the duplicate window.       *)
(***************************************************************************)
\* The promise of leader w settles in this step.
Settles(w) == wk[w].pc = "await" /\ wk[w].lead = w /\ wk'[w].pc = "done"

\* The request of slot v arrives in this step.
ArrivesNow(v) == wk[v].pc = "idle" /\ wk'[v].pc # "idle"

Failed(slot) == slot.via \in {"thrown", "timeout"}

\* Two requests are identical but for their ids.
SameCall(a, b) == a.network = b.network /\ a.method = b.method /\ a.params = b.params

\* C31: when an in-flight attempt completes, with a response or with an
\* error, its entry is removed from the in-flight map and every awaiter
\* receives that same outcome (the same body when it is a response, the same
\* error under the awaiter's own id when it is a rejection); an identical
\* request arriving afterwards starts a fresh attempt instead of receiving the
\* earlier failure.
C31_SettleRemovesAndBroadcasts ==
    [][\A w \in Workers :
          /\ Settles(w)
               => /\ \A e \in inflight' : e.lead # w /\ e.key # inflightKeyOf(wk[w].req)
                  /\ \A v \in Workers :
                        (wk[v].pc = "await" /\ wk[v].lead = w)
                          => /\ wk'[v].pc = "done"
                             /\ wk'[v].via = wk'[w].via
                             /\ IF Failed(wk'[w])
                                THEN Get(wk'[v].resp, "error") = Get(wk'[w].resp, "error")
                                ELSE wk'[v].resp = wk'[w].resp
          /\ ArrivesNow(w)
               => /\ ~Failed(wk'[w])
                  /\ \/ wk'[w].lead = w
                     \/ /\ wk[wk'[w].lead].pc = "await"
                        /\ wk[wk'[w].lead].lead = wk'[w].lead
                        /\ inflightKeyOf(wk[wk'[w].lead].req) = inflightKeyOf(wk'[w].req)
                  /\ (\E u \in Workers : /\ wk[u].pc = "done" /\ Failed(wk[u])
                                         /\ SameCall(wk[u].req, wk'[w].req)
                                         /\ \A e \in inflight : e.key # inflightKeyOf(wk[u].req))
                        => wk'[w].lead = w
      ]_vars

\* An attempt failed and its error went to the leader and to the awaiter that
\* had joined it, and the in-flight map is empty again.
C31_Witness ==
    \E v, w \in Workers :
        /\ v # w
        /\ wk[w].pc = "done" /\ wk[w].lead = w /\ wk[w].via = "thrown"
        /\ wk[v].pc = "done" /\ wk[v].lead = w /\ wk[v].via = "thrown"
        /\ Get(wk[v].resp, "error") = Get(wk[w].resp, "error")
        /\ inflight = {}

\* A JSON-RPC error response.
IsRpcError(data) == data.t = "obj" /\ Get(data, "error").t # "undef"

\* C32: the response returned after a fallback attempt is never worse than
\* the primary's: when the primary answered with a JSON-RPC success (for
\* example an empty eth_getLogs array) and the fallback answers with a JSON-RPC
\* error, the client receives the primary's success.
C32_FallbackNeverWorse ==
    (/\ hc.pc = "done"
     /\ IsSuccess(hc.primaryData)
     /\ hc.nFallback >= 1
     /\ IsRpcError(hc.fbData))
        => hc.body = hc.primaryData

\* C33: in one dispatch of the health-tracking client each upstream, primary
\* and fallback, receives at most retries + 1 HTTP requests, for every
\* configured retries, every health state at the start of the dispatch and
\* every pattern of upstream failures.
C33_RequestsPerUpstreamBounded ==
    (hc.pc # "off" /\ hc.crev = "h2")
        => /\ hc.nPrimary <= hc.retries + 1
           /\ hc.nFallback <= hc.retries + 1

(***************************************************************************)
(* Claims on the circuit breaker (SpecBreaker).                            *)
(***************************************************************************)
\* C37: once the circuit breaker is OPEN it becomes CLOSED again only through
\* HALF_OPEN, that is not before recoveryTimeout has elapsed since the last
\* failure and three calls have succeeded in HALF_OPEN; this also holds when
\* calls that were started before the breaker opened complete afterwards.
C37_OpenClosesThroughHalfOpen ==
    [][IF cb.pc = "on"
       THEN /\ cb.state = "OPEN" => cb'.state # "CLOSED"
            /\ (cb.state = "OPEN" /\ cb'.state = "HALF_OPEN")
                  => now - cb.lastFailureTime > RecoveryTimeoutMs
            /\ (cb.state = "HALF_OPEN" /\ cb'.state = "CLOSED")
                  => cb'.successCount >= 3
       ELSE TRUE
      ]_vars

\* C38: while the circuit breaker is HALF_OPEN, any failed call puts it back
\* to OPEN; it becomes CLOSED only after three successful calls with no
\* failure in between.
C38_HalfOpenFailureReopens ==
    [][IF cb.pc = "on"
       THEN /\ (cb.state = "HALF_OPEN" /\ cb'.last = "failure") => cb'.state = "OPEN"
            /\ (cb.state = "HALF_OPEN" /\ cb'.state = "CLOSED") => cb'.streak >= 3
       ELSE TRUE
      ]_vars

(***************************************************************************)
(* Claims on the request queue (SpecQueue, SpecQueueLive).                 *)
(***************************************************************************)

\* C34: in a network queue no more tasks execute at the same time than the
\* configured concurrency, and the counter `running` equals the number of
\* tasks that are executing.
C34_RunningBoundedAndExact ==
    sq.pc = "on"
      => /\ Cardinality(SqExecuting(sq)) <= sq.concurrency
         /\ sq.running = Cardinality(SqExecuting(sq))

SqWaits(t) == sq.pc = "on" /\ sq.st[t] = "waiting"
SqStarted(t) == sq.pc = "on" /\ sq.st[t] \notin {"new", "waiting", "cleared"}

\* C35: a task that waits in a queue which is neither paused nor cleared, and
\* whose running tasks all finish, is started in the end, also when it was
\* held back by the interval cap.
C35_WaitingTaskStarts ==
    \A t \in SqTasks : SqWaits(t) ~> SqStarted(t)

\* C36: the number of waiting tasks of a queue is bounded by the size the
\* queue is configured with: a task added beyond it is rejected, not queued.
C36_WaitingBounded ==
    sq.pc = "on" => Len(sq.tasks) <= sq.concurrency

(***************************************************************************)
(* Claims on retention and on the duplicate window.                        *)
(***************************************************************************)

\* A step of the hourly cleanup or of a lookup (getFromCache).
CmAgeStep == CmSweepStep \/ CmGetStep \/ CmDbGetStep \/ CmDbDelStep

\* Tier by tier, every key that is stored before the step is stored after it.
CmKeepsAll ==
    \A k \in CmKeys : /\ LRUhas(mem, k) => LRUhas(mem', k)
                      /\ DbHas(db, k) => DbHas(db', k)

\* C39: with cache.maxAge = 0 neither the hourly cleanup nor a lookup removes
\* an entry from either tier, and a lookup that finds an entry in the memory
\* tier returns it, whatever its age.
C39_ZeroMaxAgeRetains ==
    [][IF cm.pc = "on" /\ cfgMaxAge = 0
       THEN /\ CmAgeStep => CmKeepsAll
            /\ \A r \in pool :
                 (CmGetStep /\ cm'.ret.key = cacheKeyOf(r) /\ LRUhas(mem, cacheKeyOf(r)))
                    => cm'.ret.tier = "mem"
       ELSE TRUE ]_vars


\* C40: an operation that writes the duplicate-window map leaves no entry in
\* it that is older than the throttle horizon.
C40_StaleDuplicateEntriesPruned ==
    [][dup' # dup
         => \A e \in dup' : now' - e.ts < DELAY_TRIGGER_THRESHOLD_MS ]_vars

====
